---- MODULE Spec2Model ----
(***************************************************************************)
(* Keyboard-shortcut configuration pane of cosmic-settings                 *)
(* (pages/input/keyboard/shortcuts/common.rs): the Model controller, its    *)
(* ShortcutModels and rows, and the persisted "defaults"/"custom" tables.   *)
(* One action per ShortcutMessage handled by Model::update, each covering  *)
(* the whole handler including its config writes and its reload.           *)
(***************************************************************************)
EXTENDS Integers, Sequences, FiniteSets, TLC

\* ------------------------------------------------------------------ bounds
\* Number of character keys the user can press or type (key-symbols 1..NumKeys).
NumKeys == 2
\* AddKeybinding is not taken once the active model has this many rows.
MaxRows == 2
\* No message is sent that would leave more rows than this in the middle of
\* an edit: a non-empty edit buffer, the editing flag set, listening for a
\* key, or named by the staged replace confirmation.
MaxEdits == 1
\* Over a store whose calls may fail, AddKeybinding is not taken once the
\* active model has this many rows.
MaxFaultRows == 1
\* Number of character keys pressed and typed in a narrow specification.
MaxNarrowKeys == 1

\* ------------------------------------------------------------- option types
\* Option<BindingId>: None is -1, Some(i) is i.
None == -1
\* Handles carried by messages (BindingId).
Ids == 0 .. MaxRows - 1

\* ------------------------------------------------------------------ Action
\* Action::Disable, the marker that suppresses a default.
Disable == "Disable"
\* The actions of the page, in the order its factory lists them.
PageActions == <<"A1", "A2">>

\* ----------------------------------------------------------------- Binding
\* Binding::new(modifiers, key): key 0 is None, k > 0 is Some(key-symbol k).
Binding(mods, key) == [mods |-> mods, key |-> key]
\* Binding::default(): no modifiers, no key-symbol.
DefaultBinding == Binding({}, 0)
\* Binding::is_set
is_set(b) == b.key # 0
\* Names of the key-symbols, by key-symbol: four characters, then the
\* key-symbols the named keys map to, each under the name of its constant.
KeyNames ==
    <<"a", "b", "c", "d", "Return", "Tab", "space", "SUN_AltGraph", "Caps_Lock", "XF86_Fn",
      "Num_Lock", "Scroll_Lock", "Hyper_L", "Down", "Left", "Right", "Up", "End", "Home",
      "Page_Down", "Page_Up", "BackSpace", "Clear", "XF86_Copy", "XF86_Cut", "Delete",
      "Insert", "XF86_Paste", "Redo", "Undo", "Cancel", "Menu", "Escape", "Execute", "Find",
      "Help", "Pause", "SUN_Props", "Select", "XF86_ZoomIn", "XF86_ZoomOut",
      "XF86_MonBrightnessDown", "XF86_MonBrightnessUp", "XF86_Eject", "XF86_LogOff",
      "SUN_PowerSwitch", "XF86_PowerOff", "SUN_Print_Screen", "XF86_Hibernate",
      "XF86_Standby", "XF86_WakeUp", "MultipleCandidate", "Multi_key", "ISO_First_Group",
      "ISO_Last_Group", "ISO_Next_Group", "ISO_Prev_Group", "Mode_switch",
      "PreviousCandidate", "SingleCandidate", "Hangul", "Hangul_Hanja", "Hangul_Jeonja",
      "Eisu_toggle", "Hankaku", "Hiragana", "Hiragana_Katakana", "Kana_Lock", "Kanji",
      "Katakana", "Romaji", "Zenkaku", "Zenkaku_Hankaku", "XF86_ChannelDown",
      "XF86_ChannelUp", "XF86_MailForward", "XF86_Reply", "XF86_Send", "XF86_AudioForward",
      "XF86_AudioPause", "XF86_AudioRecord", "XF86_AudioRewind", "XF86_AudioStop",
      "XF86_AudioNext", "XF86_AudioPrev", "XF86_New", "XF86_Open", "Print", "XF86_Save",
      "XF86_Spell", "XF86_Numeric11", "XF86_Numeric12", "XF86_AudioLowerVolume",
      "XF86_AudioRaiseVolume", "XF86_AudioMute", "XF86_AudioMicMute", "XF86_MyComputer",
      "XF86_Calculator", "XF86_Calendar", "XF86_Mail", "XF86_AudioMedia", "XF86_Phone",
      "XF86_ScreenSaver", "XF86_WWW", "XF86_WebCam", "XF86_Word", "XF86_Back",
      "XF86_Favorites", "XF86_Forward", "XF86_HomePage", "XF86_Refresh", "XF86_Search",
      "XF86_Stop", "XF86_MediaTopMenu", "XF86_AudioRandomPlay", "F1", "F2", "F3", "F4",
      "F5", "F6", "F7", "F8", "F9", "F10", "F11", "F12", "F13", "F14", "F15", "F16", "F17",
      "F18", "F19", "F20", "F21", "F22", "F23", "F24", "F25", "F26", "F27", "F28", "F29",
      "F30", "F31", "F32", "F33", "F34", "F35">>
\* Keysym::<name>: the key-symbol of a name.
Keysym ==
    [name \in {KeyNames[k] : k \in 1 .. Len(KeyNames)} |->
        CHOOSE k \in 1 .. Len(KeyNames) : KeyNames[k] = name]
\* The bindings the bounded inputs can form: Ctrl + a character key.
SetBindings == {Binding({"ctrl"}, k) : k \in 1 .. NumKeys}

\* Binding::to_string: the modifier tokens in canonical order, then the key name.
\* A string is modelled as its sequence of '+'-separated tokens.
to_string(b) ==
    (IF "logo" \in b.mods THEN <<"Super">> ELSE <<>>)
    \o (IF "ctrl" \in b.mods THEN <<"Ctrl">> ELSE <<>>)
    \o (IF "alt" \in b.mods THEN <<"Alt">> ELSE <<>>)
    \o (IF "shift" \in b.mods THEN <<"Shift">> ELSE <<>>)
    \o (IF is_set(b) THEN <<KeyNames[b.key]>> ELSE <<>>)

\* Result<Binding, String>: Ok(binding) is <<binding>>, Err(_) is <<>>.
\* One step of Binding::from_str: the result after token tok.
ParseToken(acc, tok) ==
    IF Len(acc) = 0 THEN <<>>
    ELSE LET b == acc[1] IN
         IF tok = "Super" THEN <<Binding(b.mods \cup {"logo"}, b.key)>>
         ELSE IF tok = "Ctrl" THEN <<Binding(b.mods \cup {"ctrl"}, b.key)>>
         ELSE IF tok = "Alt" THEN <<Binding(b.mods \cup {"alt"}, b.key)>>
         ELSE IF tok = "Shift" THEN <<Binding(b.mods \cup {"shift"}, b.key)>>
         ELSE IF tok \in DOMAIN Keysym THEN <<Binding(b.mods, Keysym[tok])>>
         ELSE <<>>

RECURSIVE ParseFrom(_, _)
ParseFrom(acc, s) ==
    IF Len(s) = 0 THEN acc ELSE ParseFrom(ParseToken(acc, Head(s)), Tail(s))

\* Binding::from_str. The empty string and an all-modifier string parse to
\* an unset Binding; a token that names neither a modifier nor a key fails.
from_str(s) == ParseFrom(<<DefaultBinding>>, s)

\* Result::is_ok
is_ok(r) == Len(r) > 0

\* The edit-buffer texts the user types (InputBinding): empty, unparseable,
\* modifiers only, the canonical string of each binding, and one binding
\* written with its tokens in another order.
Texts ==
    {<<>>, <<"?">>, <<"Ctrl">>, <<KeyNames[1], "Ctrl">>}
    \cup {to_string(b) : b \in SetBindings \ {Binding({"ctrl"}, 1)}}

\* --------------------------------------------------------------- Shortcuts
\* Shortcuts(map): a function from the bindings it holds to their actions.
EmptyShortcuts == [b \in {} |-> Disable]
\* map.insert(binding, action)
Insert(s, b, a) == [x \in DOMAIN s \cup {b} |-> IF x = b THEN a ELSE s[x]]
\* map.remove(binding); also map.retain(|b, _| b != binding)
Remove(s, b) == [x \in DOMAIN s \ {b} |-> s[x]]

\* The map's iteration order: an ordered mapping, by key-symbol and modifiers.
Rank(b) ==
    b.key * 16
    + (IF "ctrl" \in b.mods THEN 1 ELSE 0) + (IF "alt" \in b.mods THEN 2 ELSE 0)
    + (IF "shift" \in b.mods THEN 4 ELSE 0) + (IF "logo" \in b.mods THEN 8 ELSE 0)

RECURSIVE InOrder(_)
InOrder(S) ==
    IF S = {} THEN <<>>
    ELSE LET m == CHOOSE x \in S : \A y \in S : Rank(x) <= Rank(y)
         IN <<m>> \o InOrder(S \ {m})

\* Shortcuts::shortcuts(action): the bindings mapped to action, in map order.
ShortcutsOf(s, action) == InOrder({b \in DOMAIN s : s[b] = action})

\* -------------------------------------------------------------------- Slab
\* A Slab is a function from its occupied keys to its entries.
EmptySlab == <<>>
\* Slab::insert: the key of the next vacant slot. Every slab of the program is
\* rebuilt before it is inserted into again, so the slot is the lowest free one.
VacantKey(slab) == CHOOSE k \in 0 .. Cardinality(DOMAIN slab) : k \notin DOMAIN slab
SlabInsert(slab, e) ==
    LET k == VacantKey(slab)
    IN [i \in DOMAIN slab \cup {k} |-> IF i = k THEN e ELSE slab[i]]
\* Slab::remove of an occupied key
SlabRemove(slab, k) == [i \in DOMAIN slab \ {k} |-> slab[i]]
\* Slab iteration: the occupied keys in ascending order.
RECURSIVE KeysInOrder(_)
KeysInOrder(S) ==
    IF S = {} THEN <<>>
    ELSE LET m == CHOOSE x \in S : \A y \in S : x <= y
         IN <<m>> \o KeysInOrder(S \ {m})
SlabKeys(slab) == KeysInOrder(DOMAIN slab)

\* ----------------------------------------------------------- ShortcutModel
\* A ShortcutBinding row (its widget id is its slab key).
ShortcutBinding(b, input, is_default, editing) ==
    [binding |-> b, input |-> input, is_default |-> is_default, editing |-> editing]

\* u16::MAX, the largest value of ShortcutModel.modified.
MaxU16 == 65535

\* `modified + 1` on the u16 counter (lines 83 and 103). At u16::MAX a build
\* with overflow checks panics and one without wraps to 0: the count keeps
\* the wrapped value and the flag says an increment has overflowed, which
\* aborts the handler in the checked build.
Increment(count) ==
    [modified |-> (count.modified + 1) % (MaxU16 + 1),
     overflow |-> count.overflow \/ count.modified = MaxU16]

\* The count before the first fold.
NoCount == [modified |-> 0, overflow |-> FALSE]

\* One step of the first fold (line 83): a row that is not a default counts.
NewCount(count, is_default) == IF is_default THEN count ELSE Increment(count)

\* One step of the second fold (line 103): a default no row holds counts.
DefaultsCount(count, held) == IF held THEN count ELSE Increment(count)

\* The fold of ShortcutModel::new over shortcuts.shortcuts(&action): the slab
\* of rows and the count of rows that are not defaults of the action.
RECURSIVE NewFold(_, _, _, _)
NewFold(defs, action, seq, acc) ==
    IF Len(seq) = 0 THEN acc
    ELSE LET b == Head(seq)
             is_default == b \in DOMAIN defs /\ defs[b] = action
         IN NewFold(defs, action, Tail(seq),
                    [slab |-> SlabInsert(acc.slab, ShortcutBinding(b, <<>>, is_default, FALSE)),
                     count |-> NewCount(acc.count, is_default)])

\* The second fold of ShortcutModel::new, over the defaults of the action:
\* one more for each that no row holds.
RECURSIVE DefaultsFold(_, _, _)
DefaultsFold(rows, seq, count) ==
    IF Len(seq) = 0 THEN count
    ELSE DefaultsFold(rows, Tail(seq),
                      DefaultsCount(count, \E i \in DOMAIN rows : rows[i].binding = Head(seq)))

\* A variant of ShortcutModel::new that makes a row of every binding of the
\* table, whatever its action.
ShortcutModelNewUnfiltered(defs, shortcuts, action) ==
    LET f == NewFold(defs, action, InOrder(DOMAIN shortcuts),
                     [slab |-> EmptySlab, count |-> NoCount])
        count == DefaultsFold(f.slab, ShortcutsOf(defs, action), f.count)
    IN [model |-> [action |-> action,
                   bindings |-> f.slab,
                   modified |-> count.modified,
                   request_key_input |-> None],
        overflow |-> count.overflow]

\* ShortcutModel::new(defaults, shortcuts, action): the model it returns, and
\* whether an increment of the counter overflowed on the way (the build with
\* overflow checks panics there and returns no model).
ShortcutModelNew(defs, shortcuts, action) ==
    LET f == NewFold(defs, action, ShortcutsOf(shortcuts, action),
                     [slab |-> EmptySlab, count |-> NoCount])
        count == DefaultsFold(f.slab, ShortcutsOf(defs, action), f.count)
    IN [model |-> [action |-> action,
                   bindings |-> f.slab,
                   modified |-> count.modified,
                   request_key_input |-> None],
        overflow |-> count.overflow]

\* The page's factory (Model.actions): one ShortcutModel per action of the
\* page, inserted in the order the page lists them.
RECURSIVE ActionsFold(_, _, _, _)
ActionsFold(defs, shortcuts, seq, acc) ==
    IF Len(seq) = 0 THEN acc
    ELSE LET new == ShortcutModelNew(defs, shortcuts, Head(seq))
         IN ActionsFold(defs, shortcuts, Tail(seq),
                        [slab |-> SlabInsert(acc.slab, new.model),
                         overflow |-> acc.overflow \/ new.overflow])
\* The slab the factory builds, and whether the counter of one of its models
\* overflowed.
Factory(defs, shortcuts) ==
    ActionsFold(defs, shortcuts, PageActions, [slab |-> EmptySlab, overflow |-> FALSE])
actions(defs, shortcuts) == Factory(defs, shortcuts).slab

\* ------------------------------------------------------------------- state
VARIABLES
    config,            \* the config store: [defaults, custom], the persisted tables
    failing,           \* the kinds of store call that may return an error
    defaults,          \* Model.defaults
    replace_dialog,    \* Model.replace_dialog: <<>> or <<[id, binding, action, label]>>
    shortcut_models,   \* Model.shortcut_models
    shortcut_context,  \* Model.shortcut_context
    panicked,          \* a handler has panicked (the program has aborted)
    wrapped,           \* an increment has wrapped: the build has no overflow checks
    published,         \* the messages the widget has published, not yet handled
    fold,              \* a run of the counting of ShortcutModel::new, step by step
    unloaded,          \* the store calls a page has made since the last on_enter
    watch,             \* the operations whose outcome is recorded in last
    last               \* the last operation, the branch it took and its binding

vars == <<config, failing, defaults, replace_dialog, shortcut_models, shortcut_context,
          panicked, wrapped, published, fold, unloaded, watch, last>>

\* ------------------------------------------------------------ config store
\* The store calls of a handler are numbered as it makes them: n is the n-th
\* config.get of "custom", or the n-th config.set of "custom", since the
\* handler started; io holds the numbers of the calls that return an error
\* in one run of the handler. A config.get of "defaults" is followed by a
\* config.get of "custom" (on_enter, shortcuts_system_config) and has the
\* number of that read; the one of ResetBindings (line 408), which no read of
\* custom follows, has the number 0.
\* The run in which the store answers every call.
NoFault == [read |-> {}, defaults |-> {}, write |-> {}]
\* self.config.get::<Shortcuts>("defaults") is Ok, for the read numbered n
DefaultsReadOk(io, n) == n \notin io.defaults
\* self.config.get::<Shortcuts>("defaults").unwrap_or_default(): the defaults
\* table, or the empty table when reading it fails.
GetDefaults(io, cfg, n) == IF DefaultsReadOk(io, n) THEN cfg.defaults ELSE EmptyShortcuts
\* self.config.get::<Shortcuts>("custom") is Ok, for the n-th read
CustomReadOk(io, n) == n \notin io.read
\* self.config.set("custom", shortcuts) is Ok, for the n-th write
CustomWriteOk(io, n) == n \notin io.write

\* Model::shortcuts_config: the custom table, or the empty table when reading
\* it fails (not found, or any other error).
shortcuts_config(io, cfg, n) == IF CustomReadOk(io, n) THEN cfg.custom ELSE EmptyShortcuts

\* A variant of shortcuts_config_set whose write always reaches the store.
shortcuts_config_set_stored(io, cfg, shortcuts, n) == [cfg EXCEPT !.custom = shortcuts]

\* Model::shortcuts_config_set: the store after the write; a failed write is
\* logged and leaves the store as it was.
shortcuts_config_set(io, cfg, shortcuts, n) ==
    IF CustomWriteOk(io, n) THEN [cfg EXCEPT !.custom = shortcuts] ELSE cfg

\* Model::config_add, making the handler's r-th read and w-th write
config_add(io, cfg, action, binding, r, w) ==
    shortcuts_config_set(io, cfg, Insert(shortcuts_config(io, cfg, r), binding, action), w)

\* Model::config_remove, making the handler's r-th read and w-th write
config_remove(io, cfg, binding, r, w) ==
    shortcuts_config_set(io, cfg, Remove(shortcuts_config(io, cfg, r), binding), w)

\* A variant of shortcuts_system_config in which a default is not overridden
\* by the custom entry of the same binding.
shortcuts_system_config_kept(io, cfg, n) ==
    LET d == GetDefaults(io, cfg, n)
        c == IF CustomReadOk(io, n) THEN cfg.custom ELSE EmptyShortcuts
    IN [b \in DOMAIN d \cup DOMAIN c |-> IF b \in DOMAIN d THEN d[b] ELSE c[b]]

\* Model::shortcuts_system_config: defaults extended by custom.
shortcuts_system_config(io, cfg, n) ==
    LET d == GetDefaults(io, cfg, n)
        c == IF CustomReadOk(io, n) THEN cfg.custom ELSE EmptyShortcuts
    IN [b \in DOMAIN d \cup DOMAIN c |-> IF b \in DOMAIN c THEN c[b] ELSE d[b]]

\* Model::config_contains: Some(action) is <<action>>, None is <<>>.
config_contains(io, cfg, binding, n) ==
    LET s == shortcuts_system_config(io, cfg, n)
    IN IF binding \in DOMAIN s /\ s[binding] # Disable THEN <<s[binding]>> ELSE <<>>

\* A variant of the loop of on_enter that leaves a binding the table already
\* has as it is.
MergeFoldKeeping(shortcuts, cust, seq) ==
    [b \in DOMAIN shortcuts \cup {seq[i] : i \in 1 .. Len(seq)} |->
        IF b \in DOMAIN shortcuts THEN shortcuts[b] ELSE cust[b]]

\* The loop of Model::on_enter: each custom entry removed from, then inserted
\* into, the table that starts as the defaults.
RECURSIVE MergeFold(_, _, _)
MergeFold(shortcuts, cust, seq) ==
    IF Len(seq) = 0 THEN shortcuts
    ELSE MergeFold(Insert(Remove(shortcuts, Head(seq)), Head(seq), cust[Head(seq)]),
                   cust, Tail(seq))

\* A variant of the merged table that uses the custom table whatever the
\* outcome of reading it.
MergedUnread(io, cfg, n) ==
    MergeFold(GetDefaults(io, cfg, n), cfg.custom, InOrder(DOMAIN cfg.custom))

\* The merged table Model::on_enter hands to the factory.
Merged(io, cfg, n) ==
    IF CustomReadOk(io, n)
    THEN MergeFold(GetDefaults(io, cfg, n), cfg.custom, InOrder(DOMAIN cfg.custom))
    ELSE GetDefaults(io, cfg, n)

\* Model::on_enter: the ShortcutModels rebuilt from the store, by the
\* handler's n-th read of custom.
on_enter(io, cfg, n) == actions(GetDefaults(io, cfg, n), Merged(io, cfg, n))

\* super::localize_action / localize_custom_action: the label of an action.
localize_action(action) == <<"label", action>>

\* ------------------------------------------------------------- key symbols
\* iced::keyboard::Key: Named(named), Character(c) or Unidentified. A character
\* key carries the key-symbol of its first character (0: the empty string).
NamedKey(named) == [kind |-> "Named", named |-> named, c |-> 0]
CharacterKey(k) == [kind |-> "Character", named |-> "", c |-> k]
UnidentifiedKey == [kind |-> "Unidentified", named |-> "", c |-> 0]

\* The arms Named::<named> => Some(Keysym::<name>) of the conversion, in the
\* order of the source; every other named key is an arm => None.
NamedKeysym ==
    "AltGraph" :> Keysym["SUN_AltGraph"] @@ "CapsLock" :> Keysym["Caps_Lock"] @@
    "Fn" :> Keysym["XF86_Fn"] @@ "NumLock" :> Keysym["Num_Lock"] @@
    "ScrollLock" :> Keysym["Scroll_Lock"] @@ "Hyper" :> Keysym["Hyper_L"] @@
    "Enter" :> Keysym["Return"] @@ "Tab" :> Keysym["Tab"] @@ "Space" :> Keysym["space"] @@
    "ArrowDown" :> Keysym["Down"] @@ "ArrowLeft" :> Keysym["Left"] @@
    "ArrowRight" :> Keysym["Right"] @@ "ArrowUp" :> Keysym["Up"] @@
    "End" :> Keysym["End"] @@ "Home" :> Keysym["Home"] @@
    "PageDown" :> Keysym["Page_Down"] @@ "PageUp" :> Keysym["Page_Up"] @@
    "Backspace" :> Keysym["BackSpace"] @@ "Clear" :> Keysym["Clear"] @@
    "Copy" :> Keysym["XF86_Copy"] @@ "Cut" :> Keysym["XF86_Cut"] @@
    "Delete" :> Keysym["Delete"] @@ "Insert" :> Keysym["Insert"] @@
    "Paste" :> Keysym["XF86_Paste"] @@ "Redo" :> Keysym["Redo"] @@
    "Undo" :> Keysym["Undo"] @@ "Cancel" :> Keysym["Cancel"] @@
    "ContextMenu" :> Keysym["Menu"] @@ "Escape" :> Keysym["Escape"] @@
    "Execute" :> Keysym["Execute"] @@ "Find" :> Keysym["Find"] @@
    "Help" :> Keysym["Help"] @@ "Pause" :> Keysym["Pause"] @@
    "Props" :> Keysym["SUN_Props"] @@ "Select" :> Keysym["Select"] @@
    "ZoomIn" :> Keysym["XF86_ZoomIn"] @@ "ZoomOut" :> Keysym["XF86_ZoomOut"] @@
    "BrightnessDown" :> Keysym["XF86_MonBrightnessDown"] @@
    "BrightnessUp" :> Keysym["XF86_MonBrightnessUp"] @@ "Eject" :> Keysym["XF86_Eject"] @@
    "LogOff" :> Keysym["XF86_LogOff"] @@ "Power" :> Keysym["SUN_PowerSwitch"] @@
    "PowerOff" :> Keysym["XF86_PowerOff"] @@ "PrintScreen" :> Keysym["SUN_Print_Screen"] @@
    "Hibernate" :> Keysym["XF86_Hibernate"] @@ "Standby" :> Keysym["XF86_Standby"] @@
    "WakeUp" :> Keysym["XF86_WakeUp"] @@ "AllCandidates" :> Keysym["MultipleCandidate"] @@
    "Compose" :> Keysym["Multi_key"] @@ "GroupFirst" :> Keysym["ISO_First_Group"] @@
    "GroupLast" :> Keysym["ISO_Last_Group"] @@ "GroupNext" :> Keysym["ISO_Next_Group"] @@
    "GroupPrevious" :> Keysym["ISO_Prev_Group"] @@ "ModeChange" :> Keysym["Mode_switch"] @@
    "PreviousCandidate" :> Keysym["PreviousCandidate"] @@
    "SingleCandidate" :> Keysym["SingleCandidate"] @@ "HangulMode" :> Keysym["Hangul"] @@
    "HanjaMode" :> Keysym["Hangul_Hanja"] @@ "JunjaMode" :> Keysym["Hangul_Jeonja"] @@
    "Eisu" :> Keysym["Eisu_toggle"] @@ "Hankaku" :> Keysym["Hankaku"] @@
    "Hiragana" :> Keysym["Hiragana"] @@ "HiraganaKatakana" :> Keysym["Hiragana_Katakana"] @@
    "KanaMode" :> Keysym["Kana_Lock"] @@ "KanjiMode" :> Keysym["Kanji"] @@
    "Katakana" :> Keysym["Katakana"] @@ "Romaji" :> Keysym["Romaji"] @@
    "Zenkaku" :> Keysym["Zenkaku"] @@ "ZenkakuHankaku" :> Keysym["Zenkaku_Hankaku"] @@
    "ChannelDown" :> Keysym["XF86_ChannelDown"] @@
    "ChannelUp" :> Keysym["XF86_ChannelUp"] @@
    "MailForward" :> Keysym["XF86_MailForward"] @@ "MailReply" :> Keysym["XF86_Reply"] @@
    "MailSend" :> Keysym["XF86_Send"] @@
    "MediaFastForward" :> Keysym["XF86_AudioForward"] @@
    "MediaPause" :> Keysym["XF86_AudioPause"] @@
    "MediaRecord" :> Keysym["XF86_AudioRecord"] @@
    "MediaRewind" :> Keysym["XF86_AudioRewind"] @@
    "MediaStop" :> Keysym["XF86_AudioStop"] @@
    "MediaTrackNext" :> Keysym["XF86_AudioNext"] @@
    "MediaTrackPrevious" :> Keysym["XF86_AudioPrev"] @@ "New" :> Keysym["XF86_New"] @@
    "Open" :> Keysym["XF86_Open"] @@ "Print" :> Keysym["Print"] @@
    "Save" :> Keysym["XF86_Save"] @@ "SpellCheck" :> Keysym["XF86_Spell"] @@
    "Key11" :> Keysym["XF86_Numeric11"] @@ "Key12" :> Keysym["XF86_Numeric12"] @@
    "AudioVolumeDown" :> Keysym["XF86_AudioLowerVolume"] @@
    "AudioVolumeUp" :> Keysym["XF86_AudioRaiseVolume"] @@
    "AudioVolumeMute" :> Keysym["XF86_AudioMute"] @@
    "MicrophoneVolumeMute" :> Keysym["XF86_AudioMicMute"] @@
    "LaunchApplication1" :> Keysym["XF86_MyComputer"] @@
    "LaunchApplication2" :> Keysym["XF86_Calculator"] @@
    "LaunchCalendar" :> Keysym["XF86_Calendar"] @@ "LaunchMail" :> Keysym["XF86_Mail"] @@
    "LaunchMusicPlayer" :> Keysym["XF86_AudioMedia"] @@
    "LaunchPhone" :> Keysym["XF86_Phone"] @@
    "LaunchScreenSaver" :> Keysym["XF86_ScreenSaver"] @@
    "LaunchWebBrowser" :> Keysym["XF86_WWW"] @@ "LaunchWebCam" :> Keysym["XF86_WebCam"] @@
    "LaunchWordProcessor" :> Keysym["XF86_Word"] @@ "BrowserBack" :> Keysym["XF86_Back"] @@
    "BrowserFavorites" :> Keysym["XF86_Favorites"] @@
    "BrowserForward" :> Keysym["XF86_Forward"] @@
    "BrowserHome" :> Keysym["XF86_HomePage"] @@
    "BrowserRefresh" :> Keysym["XF86_Refresh"] @@
    "BrowserSearch" :> Keysym["XF86_Search"] @@ "BrowserStop" :> Keysym["XF86_Stop"] @@
    "MediaTopMenu" :> Keysym["XF86_MediaTopMenu"] @@
    "RandomToggle" :> Keysym["XF86_AudioRandomPlay"] @@ "F1" :> Keysym["F1"] @@
    "F2" :> Keysym["F2"] @@ "F3" :> Keysym["F3"] @@ "F4" :> Keysym["F4"] @@
    "F5" :> Keysym["F5"] @@ "F6" :> Keysym["F6"] @@ "F7" :> Keysym["F7"] @@
    "F8" :> Keysym["F8"] @@ "F9" :> Keysym["F9"] @@ "F10" :> Keysym["F10"] @@
    "F11" :> Keysym["F11"] @@ "F12" :> Keysym["F12"] @@ "F13" :> Keysym["F13"] @@
    "F14" :> Keysym["F14"] @@ "F15" :> Keysym["F15"] @@ "F16" :> Keysym["F16"] @@
    "F17" :> Keysym["F17"] @@ "F18" :> Keysym["F18"] @@ "F19" :> Keysym["F19"] @@
    "F20" :> Keysym["F20"] @@ "F21" :> Keysym["F21"] @@ "F22" :> Keysym["F22"] @@
    "F23" :> Keysym["F23"] @@ "F24" :> Keysym["F24"] @@ "F25" :> Keysym["F25"] @@
    "F26" :> Keysym["F26"] @@ "F27" :> Keysym["F27"] @@ "F28" :> Keysym["F28"] @@
    "F29" :> Keysym["F29"] @@ "F30" :> Keysym["F30"] @@ "F31" :> Keysym["F31"] @@
    "F32" :> Keysym["F32"] @@ "F33" :> Keysym["F33"] @@ "F34" :> Keysym["F34"] @@
    "F35" :> Keysym["F35"]

\* impl From<iced::keyboard::Key> for KeysymValue: 0 is None, k is Some(k).
KeysymValue(key) ==
    IF key.kind = "Named"
    THEN IF key.named \in DOMAIN NamedKeysym THEN NamedKeysym[key.named] ELSE 0
    ELSE IF key.kind = "Character" THEN key.c
    ELSE 0

\* The keys pressed while a row listens: the character keys, a bare
\* modifier key and a key the platform does not identify.
PressedKeys ==
    {CharacterKey(k) : k \in 1 .. NumKeys}
    \cup {NamedKey("Control"), UnidentifiedKey}
\* Keys the conversion gives no key-symbol: the bare modifier keys, named
\* keys of media devices and remote controls, a character key with the
\* empty string and a key the platform does not identify.
UnmappedKeys ==
    {NamedKey(n) : n \in {"Alt", "Control", "Shift", "Super", "Meta", "FnLock", "Symbol",
                          "SymbolLock", "MediaPlay", "TV", "Settings"}}
    \cup {CharacterKey(0), UnidentifiedKey}
\* The modifier flags held while a key is pressed.
PressedModifiers == {{"ctrl"}}

\* ---------------------------------------------------------- narrow inputs
\* The specifications in which each step has many outcomes, or messages wait
\* in flight, are narrow: one character key is pressed and typed, and a model
\* gets one row. They are those in which reads of the store may fail and the
\* one that follows the key-capture widget.
Narrow == failing \cap {"read", "defaults"} # {} \/ "on_event" \in watch

\* The character keys pressed and typed.
KeysInUse == 1 .. (IF Narrow THEN MaxNarrowKeys ELSE NumKeys)

\* The keys a KeyPressed message carries.
Pressable == {key \in PressedKeys : key.kind = "Character" => key.c \in KeysInUse}

\* The texts an InputBinding message carries.
Typeable ==
    {text \in Texts : is_ok(from_str(text)) => from_str(text)[1].key \in KeysInUse \cup {0}}

\* The rows AddKeybinding may bring a model to.
RowLimit == IF failing = {} /\ ~Narrow THEN MaxRows ELSE MaxFaultRows

\* ---------------------------------------------------------------- handlers
\* The outcome of a handler: the fields it leaves, the branch it took (tag),
\* the binding it was about, and whether it panicked.
Keep(tag, b) ==
    [models |-> shortcut_models, cfg |-> config, ctx |-> shortcut_context,
     dialog |-> replace_dialog, defaults |-> defaults, panic |-> FALSE,
     abort |-> <<>>, tag |-> tag, binding |-> b, flag |-> FALSE]

\* The outcome r after Model::on_enter, which reloads from the store r.cfg
\* by the handler's n-th read of custom: self.defaults is the defaults table
\* read and shortcut_models what the factory builds. r is the program as the
\* handler has left it when it calls on_enter. abort keeps the program as it
\* is at the first increment that overflows the counter, inside the factory
\* (line 229): self.defaults is assigned (220), shortcut_models is not.
Entered(io, r, n) ==
    LET read == GetDefaults(io, r.cfg, n)
        built == Factory(read, Merged(io, r.cfg, n))
    IN [r EXCEPT !.models = built.slab,
                 !.defaults = read,
                 !.abort = IF @ = <<>> /\ built.overflow
                           THEN <<[r EXCEPT !.defaults = read, !.panic = TRUE]>>
                           ELSE @]

\* self.shortcut_context.and_then(|id| self.shortcut_models.get(id.0))
HasModel(models, ctx) == ctx # None /\ ctx \in DOMAIN models
\* ... .and_then(|model| model.bindings.get(id.0))
HasRow(models, ctx, id) == HasModel(models, ctx) /\ id \in DOMAIN models[ctx].bindings

\* A variant of the commit that writes the store but does not reload: the
\* models stay as edited in memory.
CommitInMemory(io, r, ctx, id, new_binding, input, n) ==
    LET shortcut == r.models[ctx].bindings[id]
        committed == [r.models EXCEPT ![ctx].bindings[id] =
                         [shortcut EXCEPT !.binding = new_binding, !.input = input,
                                          !.editing = FALSE]]
        cfg == config_add(io, config_remove(io, r.cfg, shortcut.binding, n + 1, 1),
                          committed[ctx].action, new_binding, n + 2, 2)
    IN [r EXCEPT !.cfg = cfg, !.models = committed,
                 !.tag = "committed", !.binding = new_binding]

\* The commit both submit paths end with: the row takes the new binding, its
\* previous binding leaves custom, the new one enters it, and on_enter reloads.
\* The handler has read custom n times before.
Commit(io, r, ctx, id, new_binding, input, n) ==
    LET shortcut == r.models[ctx].bindings[id]
        prev_binding == shortcut.binding
        committed == [r.models EXCEPT ![ctx].bindings[id] =
                         [shortcut EXCEPT !.binding = new_binding, !.input = input,
                                          !.editing = FALSE]]
        action == committed[ctx].action
        cfg == config_add(io, config_remove(io, r.cfg, prev_binding, n + 1, 1),
                          action, new_binding, n + 2, 2)
    IN Entered(io, [r EXCEPT !.cfg = cfg, !.models = committed,
                             !.tag = "committed", !.binding = new_binding],
               n + 3)

\* A variant of submit_binding that commits without asking who owns the
\* candidate binding.
submit_binding_unconfirmed(io, r, id) ==
    IF ~HasRow(r.models, r.ctx, id) THEN [r EXCEPT !.tag = "norow"]
    ELSE LET parsed == from_str(r.models[r.ctx].bindings[id].input)
         IN IF ~is_ok(parsed) THEN [r EXCEPT !.tag = "parse_error"]
            ELSE IF ~is_set(parsed[1])
            THEN [r EXCEPT !.models[r.ctx].bindings[id].input = <<>>, !.tag = "unset"]
            ELSE Commit(io, r, r.ctx, id, parsed[1], <<>>, 1)

\* A variant of submit_binding that does not turn an unset candidate away.
submit_binding_unchecked(io, r, id) ==
    IF ~HasRow(r.models, r.ctx, id) THEN [r EXCEPT !.tag = "norow"]
    ELSE LET parsed == from_str(r.models[r.ctx].bindings[id].input)
         IN IF ~is_ok(parsed) THEN [r EXCEPT !.tag = "parse_error"]
            ELSE LET found == config_contains(io, r.cfg, parsed[1], 1) IN
                 IF Len(found) > 0
                 THEN [r EXCEPT !.dialog = <<[id |-> id, binding |-> parsed[1],
                                              action |-> found[1],
                                              label |-> localize_action(found[1])]>>,
                                !.tag = "staged", !.binding = parsed[1]]
                 ELSE Commit(io, r, r.ctx, id, parsed[1], <<>>, 1)

\* A variant of submit_binding that clears the buffer when it does not parse.
submit_binding_clearing(io, r, id) ==
    IF ~HasRow(r.models, r.ctx, id) THEN [r EXCEPT !.tag = "norow"]
    ELSE IF ~is_ok(from_str(r.models[r.ctx].bindings[id].input))
    THEN [r EXCEPT !.models[r.ctx].bindings[id].input = <<>>, !.tag = "parse_error"]
    ELSE [r EXCEPT !.tag = "unset"]

\* A variant of submit_binding that reloads the models when the buffer parses
\* to an unset binding.
submit_binding_reloading(io, r, id) ==
    IF r.ctx = None THEN [r EXCEPT !.tag = "noctx"]
    ELSE IF ~HasRow(r.models, r.ctx, id) THEN [r EXCEPT !.tag = "norow"]
    ELSE LET shortcut == r.models[r.ctx].bindings[id]
             parsed == from_str(shortcut.input)
         IN IF ~is_ok(parsed) THEN [r EXCEPT !.tag = "parse_error"]
            ELSE LET new_binding == parsed[1] IN
                 IF ~is_set(new_binding)
                 THEN Entered(io, [r EXCEPT !.tag = "unset"], 1)
                 ELSE LET found == config_contains(io, r.cfg, new_binding, 1) IN
                      IF Len(found) > 0
                      THEN [r EXCEPT !.dialog = <<[id |-> id, binding |-> new_binding,
                                                   action |-> found[1],
                                                   label |-> localize_action(found[1])]>>,
                                     !.tag = "staged", !.binding = new_binding]
                      ELSE Commit(io, r, r.ctx, id, new_binding, <<>>, 1)

\* Model::submit_binding, from the state r.
submit_binding(io, r, id) ==
    IF r.ctx = None THEN [r EXCEPT !.tag = "noctx"]
    ELSE IF ~HasRow(r.models, r.ctx, id) THEN [r EXCEPT !.tag = "norow"]
    ELSE LET shortcut == r.models[r.ctx].bindings[id]
             parsed == from_str(shortcut.input)
         IN IF ~is_ok(parsed) THEN [r EXCEPT !.tag = "parse_error"]
            ELSE LET new_binding == parsed[1] IN
                 IF ~is_set(new_binding)
                 THEN [r EXCEPT !.models[r.ctx].bindings[id].input = <<>>,
                                !.tag = "unset"]
                 ELSE LET found == config_contains(io, r.cfg, new_binding, 1) IN
                      IF Len(found) > 0
                      THEN [r EXCEPT !.dialog = <<[id |-> id, binding |-> new_binding,
                                                   action |-> found[1],
                                                   label |-> localize_action(found[1])]>>,
                                     !.tag = "staged", !.binding = new_binding]
                      ELSE Commit(io, r, r.ctx, id, new_binding, <<>>, 1)

\* ShortcutMessage::AddKeybinding
AddKeybindingResult ==
    IF ~HasModel(shortcut_models, shortcut_context) THEN Keep("nomodel", DefaultBinding)
    ELSE LET model == shortcut_models[shortcut_context]
             empty == {i \in DOMAIN model.bindings :
                          ~(is_set(model.bindings[i].binding)
                            \/ is_ok(from_str(model.bindings[i].input)))}
         IN IF empty # {}
            THEN LET i == CHOOSE x \in empty : \A y \in empty : x <= y
                 IN [Keep("reused", DefaultBinding) EXCEPT
                        !.models[shortcut_context].bindings[i].input = <<>>]
            ELSE [Keep("inserted", DefaultBinding) EXCEPT
                     !.models[shortcut_context].bindings =
                         SlabInsert(@, ShortcutBinding(DefaultBinding, <<>>, FALSE, FALSE))]

\* The loop of ApplyReplace over the models: the first row, of the first
\* model that has one, holding the binding is removed.
RemoveHolder(models, b) ==
    LET holds(m) == {i \in DOMAIN models[m].bindings : models[m].bindings[i].binding = b}
        ms == {m \in DOMAIN models : holds(m) # {}}
    IN IF ms = {} THEN models
       ELSE LET m == CHOOSE x \in ms : \A y \in ms : x <= y
                i == CHOOSE x \in holds(m) : \A y \in holds(m) : x <= y
            IN [models EXCEPT ![m].bindings = SlabRemove(@, i)]

\* ShortcutMessage::ApplyReplace
ApplyReplaceResult(io) ==
    IF Len(replace_dialog) = 0 THEN Keep("nodialog", DefaultBinding)
    ELSE LET id == replace_dialog[1].id
             new_binding == replace_dialog[1].binding
             taken == [Keep("noctx", new_binding) EXCEPT !.dialog = <<>>]
         IN IF shortcut_context = None THEN taken
            ELSE LET cfg1 == config_remove(io, config, new_binding, 1, 1)
                     models1 == RemoveHolder(shortcut_models, new_binding)
                 IN IF HasRow(models1, shortcut_context, id)
                    THEN LET shortcut == models1[shortcut_context].bindings[id]
                             prev_binding == shortcut.binding
                             models2 == [models1 EXCEPT
                                            ![shortcut_context].bindings[id] =
                                                [shortcut EXCEPT !.binding = new_binding,
                                                                 !.input = <<>>]]
                             action == models2[shortcut_context].action
                             cfg2 == config_add(io, config_remove(io, cfg1, prev_binding, 2, 2),
                                                action, new_binding, 3, 3)
                         IN Entered(io, [taken EXCEPT !.cfg = cfg2, !.models = models2,
                                                      !.tag = "applied"], 4)
                    ELSE Entered(io, [taken EXCEPT !.cfg = cfg1, !.models = models1,
                                                   !.tag = "norow"], 2)

\* A variant of CancelReplace that also closes the active context.
CancelReplaceClosing ==
    [Keep(IF Len(replace_dialog) > 0 THEN "cancelled" ELSE "nodialog", DefaultBinding)
        EXCEPT !.dialog = <<>>, !.ctx = None]

\* ShortcutMessage::CancelReplace
CancelReplaceResult ==
    [Keep(IF Len(replace_dialog) > 0 THEN "cancelled" ELSE "nodialog", DefaultBinding)
        EXCEPT !.dialog = <<>>]

\* A variant of DeleteBinding that removes the binding of every row from
\* custom, a default row's too, and never writes Disable.
DeleteBindingRemoving(io, id) ==
    IF ~HasRow(shortcut_models, shortcut_context, id) THEN Keep("nomodel", DefaultBinding)
    ELSE LET shortcut == shortcut_models[shortcut_context].bindings[id]
             cfg == config_remove(io, config, shortcut.binding, 1, 1)
             tag == IF shortcut.is_default THEN "default" ELSE "custom"
             removed == [shortcut_models EXCEPT
                            ![shortcut_context].bindings = SlabRemove(@, id)]
         IN Entered(io, [Keep(tag, shortcut.binding) EXCEPT
                            !.models = removed, !.cfg = cfg], 2)

\* A variant of DeleteBinding that writes Disable for the binding of every
\* row, default or not.
DeleteBindingDisabling(io, id) ==
    IF ~HasRow(shortcut_models, shortcut_context, id) THEN Keep("nomodel", DefaultBinding)
    ELSE LET shortcut == shortcut_models[shortcut_context].bindings[id]
             cfg == config_add(io, config, Disable, shortcut.binding, 1, 1)
             tag == IF shortcut.is_default THEN "default" ELSE "custom"
             removed == [shortcut_models EXCEPT
                            ![shortcut_context].bindings = SlabRemove(@, id)]
         IN Entered(io, [Keep(tag, shortcut.binding) EXCEPT
                            !.models = removed, !.cfg = cfg], 2)

\* ShortcutMessage::DeleteBinding(id)
DeleteBindingResult(io, id) ==
    IF ~HasModel(shortcut_models, shortcut_context) THEN Keep("nomodel", DefaultBinding)
    ELSE IF id \notin DOMAIN shortcut_models[shortcut_context].bindings
    THEN [Keep("panic", DefaultBinding) EXCEPT !.panic = TRUE]
    ELSE LET model == shortcut_models[shortcut_context]
             shortcut == model.bindings[id]
             left == SlabRemove(model.bindings, id)
             emptied == DOMAIN left = {}
             removed == [shortcut_models EXCEPT ![shortcut_context].bindings = left]
         IN IF shortcut.is_default
            THEN LET cfg == config_add(io, config, Disable, shortcut.binding, 1, 1)
                 IN Entered(io, [Keep("default", shortcut.binding) EXCEPT
                                    !.models = removed,
                                    !.cfg = cfg, !.flag = emptied], 2)
            ELSE LET cfg == config_remove(io, config, shortcut.binding, 1, 1)
                 IN Entered(io, [Keep("custom", shortcut.binding) EXCEPT
                                    !.models = removed,
                                    !.ctx = IF emptied THEN None ELSE shortcut_context,
                                    !.cfg = cfg, !.flag = emptied], 2)

\* A variant of the loop of DeleteShortcut that stops after the first binding.
DeleteShortcutLoopOnce(io, r, rows, keys, n) ==
    IF Len(keys) = 0 THEN r
    ELSE LET cfg == config_remove(io, r.cfg, rows[Head(keys)].binding, 2 * n - 1, n)
         IN Entered(io, [r EXCEPT !.cfg = cfg, !.tag = "reloaded",
                                  !.binding = rows[Head(keys)].binding,
                                  !.flag = cfg # r.cfg], 2 * n)

\* The loop of DeleteShortcut, from its n-th iteration on: each binding of
\* the removed model leaves custom, and on_enter reloads after each.
RECURSIVE DeleteShortcutLoop(_, _, _, _, _)
DeleteShortcutLoop(io, r, rows, keys, n) ==
    IF Len(keys) = 0 THEN r
    ELSE LET cfg == config_remove(io, r.cfg, rows[Head(keys)].binding, 2 * n - 1, n)
             reloaded == Entered(io, [r EXCEPT !.cfg = cfg, !.tag = "reloaded",
                                               !.binding = rows[Head(keys)].binding,
                                               !.flag = @ \/ cfg # r.cfg], 2 * n)
         IN DeleteShortcutLoop(io, reloaded, rows, Tail(keys), n + 1)

\* ShortcutMessage::DeleteShortcut(id)
DeleteShortcutResult(io, id) ==
    IF id \notin DOMAIN shortcut_models
    THEN [Keep("panic", DefaultBinding) EXCEPT !.panic = TRUE]
    ELSE LET model == shortcut_models[id]
         IN DeleteShortcutLoop(io,
                [Keep("removed", DefaultBinding) EXCEPT
                    !.models = SlabRemove(shortcut_models, id)],
                model.bindings, SlabKeys(model.bindings), 1)

\* A variant of EditBinding that empties the buffer when the edit is left
\* with a buffer that does not parse.
EditBindingDiscarding(io, id, enable) ==
    IF ~HasRow(shortcut_models, shortcut_context, id) THEN Keep("norow", DefaultBinding)
    ELSE LET shortcut == shortcut_models[shortcut_context].bindings[id]
             flagged == [Keep("left", DefaultBinding) EXCEPT
                            !.models[shortcut_context].bindings[id].editing = enable]
         IN IF enable
            THEN [flagged EXCEPT
                     !.models[shortcut_context].bindings[id].input = to_string(shortcut.binding),
                     !.tag = "entered"]
            ELSE IF is_ok(from_str(shortcut.input)) THEN submit_binding(io, flagged, id)
            ELSE [flagged EXCEPT !.models[shortcut_context].bindings[id].input = <<>>]

\* ShortcutMessage::EditBinding(id, enable)
EditBindingResult(io, id, enable) ==
    IF ~HasRow(shortcut_models, shortcut_context, id) THEN Keep("norow", DefaultBinding)
    ELSE LET shortcut == shortcut_models[shortcut_context].bindings[id]
             flagged == [Keep("left", DefaultBinding) EXCEPT
                            !.models[shortcut_context].bindings[id].editing = enable]
         IN IF enable
            THEN [flagged EXCEPT
                     !.models[shortcut_context].bindings[id].input = to_string(shortcut.binding),
                     !.tag = "entered"]
            ELSE IF is_ok(from_str(shortcut.input)) THEN submit_binding(io, flagged, id)
            ELSE flagged

\* ShortcutMessage::InputBinding(id, text)
InputBindingResult(id, text) ==
    IF ~HasRow(shortcut_models, shortcut_context, id) THEN Keep("norow", DefaultBinding)
    ELSE [Keep("typed", DefaultBinding) EXCEPT
             !.models[shortcut_context].bindings[id].input = text]

\* A variant of PressBinding that listens for any row id of the active model,
\* existing or not.
PressBindingAnyRow(id) ==
    IF HasModel(shortcut_models, shortcut_context)
    THEN [Keep("listening", DefaultBinding) EXCEPT
             !.models[shortcut_context].request_key_input = id]
    ELSE Keep("norow", DefaultBinding)

\* ShortcutMessage::PressBinding(id)
PressBindingResult(id) ==
    IF HasRow(shortcut_models, shortcut_context, id)
    THEN [Keep("listening", DefaultBinding) EXCEPT
             !.models[shortcut_context].request_key_input = id]
    ELSE Keep("norow", DefaultBinding)

\* The loops of ResetBindings: each binding of the sequence leaves custom; the
\* first removal makes the handler's n-th read and write.
RECURSIVE RemoveAll(_, _, _, _)
RemoveAll(io, cfg, seq, n) ==
    IF Len(seq) = 0 THEN cfg
    ELSE RemoveAll(io, config_remove(io, cfg, Head(seq), n, n), Tail(seq), n + 1)

\* A variant of ResetBindings without the second loop: the defaults of the
\* action stay in custom.
ResetBindingsHeldOnly(io) ==
    IF ~HasModel(shortcut_models, shortcut_context) THEN Keep("noctx", DefaultBinding)
    ELSE LET model == shortcut_models[shortcut_context]
             held == [i \in 1 .. Len(SlabKeys(model.bindings)) |->
                         model.bindings[SlabKeys(model.bindings)[i]].binding]
             cfg == RemoveAll(io, config, held, 1)
         IN Entered(io, [Keep("reset", DefaultBinding) EXCEPT
                            !.cfg = cfg, !.flag = cfg # config], Len(held) + 1)

\* A variant of ResetBindings that empties the custom table.
ResetBindingsClearing(io) ==
    IF shortcut_context = None THEN Keep("noctx", DefaultBinding)
    ELSE LET cfg ==
                 IF HasModel(shortcut_models, shortcut_context)
                 THEN shortcuts_config_set(io, config, EmptyShortcuts, 1)
                 ELSE config
             tag == IF HasModel(shortcut_models, shortcut_context) THEN "reset" ELSE "nomodel"
         IN Entered(io, [Keep(tag, DefaultBinding) EXCEPT
                            !.cfg = cfg, !.flag = cfg # config], 1)

\* ShortcutMessage::ResetBindings. The tag is "reset" when a binding was
\* removed from custom (the store was written), "reloaded" when the model had
\* neither rows nor defaults and the handler only reloaded.
ResetBindingsResult(io) ==
    IF shortcut_context = None THEN Keep("noctx", DefaultBinding)
    ELSE IF ~HasModel(shortcut_models, shortcut_context)
    THEN Entered(io, Keep("nomodel", DefaultBinding), 1)
    ELSE LET model == shortcut_models[shortcut_context]
             held == [i \in 1 .. Len(SlabKeys(model.bindings)) |->
                         model.bindings[SlabKeys(model.bindings)[i]].binding]
             own == ShortcutsOf(GetDefaults(io, config, 0), model.action)
             cfg == RemoveAll(io, RemoveAll(io, config, held, 1), own, Len(held) + 1)
             removals == Len(held) + Len(own)
             tag == IF removals = 0 THEN "reloaded" ELSE "reset"
         IN Entered(io, [Keep(tag, DefaultBinding) EXCEPT
                            !.cfg = cfg, !.flag = cfg # config], removals + 1)

\* ShortcutMessage::SubmitBinding(id)
SubmitBindingResult(io, id) == submit_binding(io, Keep("", DefaultBinding), id)

\* A variant of ShowShortcut that keeps a staged confirmation.
ShowShortcutKeeping(id) ==
    [Keep("shown", DefaultBinding) EXCEPT !.ctx = id, !.flag = Len(replace_dialog) > 0]

\* ShortcutMessage::ShowShortcut(id, description)
ShowShortcutResult(id) ==
    [Keep("shown", DefaultBinding) EXCEPT
        !.ctx = id, !.dialog = <<>>, !.flag = Len(replace_dialog) > 0]

\* A variant of KeyPressed that commits the pressed binding without asking
\* who owns it.
KeyPressedUnconfirmed(io, binding_id, pressed_key, modifiers) ==
    IF ~HasRow(shortcut_models, shortcut_context, binding_id)
       \/ KeysymValue(pressed_key) = 0
    THEN Keep("norow", DefaultBinding)
    ELSE Commit(io, Keep("", DefaultBinding), shortcut_context, binding_id,
                Binding(modifiers, KeysymValue(pressed_key)),
                to_string(Binding(modifiers, KeysymValue(pressed_key))), 2)

\* A variant of KeyPressed that stops listening when the key has no
\* key-symbol.
KeyPressedStopping(io, binding_id, pressed_key, modifiers) ==
    IF ~HasRow(shortcut_models, shortcut_context, binding_id)
    THEN Keep("norow", DefaultBinding)
    ELSE LET keysym == KeysymValue(pressed_key) IN
         IF keysym = 0
         THEN [Keep("ignored", DefaultBinding) EXCEPT
                  !.models[shortcut_context].request_key_input = None,
                  !.flag = shortcut_models[shortcut_context].request_key_input = binding_id]
         ELSE LET new_binding == Binding(modifiers, keysym)
                  heard == [Keep("", new_binding) EXCEPT
                               !.models[shortcut_context].bindings[binding_id].input =
                                   to_string(new_binding),
                               !.models[shortcut_context].request_key_input = None]
                  found == config_contains(io, config, new_binding, 2)
              IN IF Len(found) > 0
                 THEN [heard EXCEPT !.dialog = <<[id |-> binding_id, binding |-> new_binding,
                                                  action |-> found[1],
                                                  label |-> localize_action(found[1])]>>,
                                    !.tag = "staged"]
                 ELSE Commit(io, heard, shortcut_context, binding_id, new_binding,
                             to_string(new_binding), 2)

\* ShortcutMessage::KeyPressed(binding_id, pressed_key, modifiers). The
\* handler's first read of custom is the one of the merged view it logs; the
\* owner of the new binding is looked up by the second.
KeyPressedResult(io, binding_id, pressed_key, modifiers) ==
    IF ~HasRow(shortcut_models, shortcut_context, binding_id)
    THEN Keep("norow", DefaultBinding)
    ELSE LET keysym == KeysymValue(pressed_key) IN
         IF keysym = 0
         THEN [Keep("ignored", DefaultBinding) EXCEPT
                  !.flag = shortcut_models[shortcut_context].request_key_input = binding_id]
         ELSE LET new_binding == Binding(modifiers, keysym)
                  heard == [Keep("", new_binding) EXCEPT
                               !.models[shortcut_context].bindings[binding_id].input =
                                   to_string(new_binding),
                               !.models[shortcut_context].request_key_input = None]
                  found == config_contains(io, config, new_binding, 2)
              IN IF Len(found) > 0
                 THEN [heard EXCEPT !.dialog = <<[id |-> binding_id, binding |-> new_binding,
                                                  action |-> found[1],
                                                  label |-> localize_action(found[1])]>>,
                                    !.tag = "staged"]
                 ELSE Commit(io, heard, shortcut_context, binding_id, new_binding,
                             to_string(new_binding), 2)

\* --------------------------------------------------- the key-capture widget
\* The events the runtime delivers to a widget: key presses, and events of
\* other kinds (a key release, a change of modifiers, mouse, touch, window).
Events ==
    {[kind |-> "KeyPressed", key |-> k, modifiers |-> m] :
        k \in PressedKeys, m \in PressedModifiers}
    \cup {[kind |-> e, key |-> k, modifiers |-> m] :
             e \in {"KeyReleased", "ModifiersChanged"},
             k \in {CharacterKey(1)}, m \in PressedModifiers}
    \cup {[kind |-> e, key |-> UnidentifiedKey, modifiers |-> {}] :
             e \in {"Mouse", "Touch", "Window"}}

\* A variant of on_event that also publishes on a key release.
on_event_released(binding_id, event) ==
    IF event.kind \in {"KeyPressed", "KeyReleased"}
    THEN [published |-> <<[msg |-> "KeyPressed", binding_id |-> binding_id,
                           key |-> event.key, modifiers |-> event.modifiers]>>,
          status |-> "Captured"]
    ELSE [published |-> <<>>, status |-> "Ignored"]

\* InputKeyEventHandler::on_event: what it publishes to the shell and the
\* status it returns.
on_event(binding_id, event) ==
    IF event.kind = "KeyPressed"
    THEN [published |-> <<[msg |-> "KeyPressed", binding_id |-> binding_id,
                           key |-> event.key, modifiers |-> event.modifiers]>>,
          status |-> "Captured"]
    ELSE [published |-> <<>>, status |-> "Ignored"]

\* fn context_drawer(shortcuts, id, show_action): `&shortcuts[id.0]` (line
\* 581) panics on a vacant slot; on an occupied one the drawer has one
\* InputKeyEventHandler for the row the model listens for (handlers), and
\* none when it listens for no row.
context_drawer(shortcuts, id) ==
    IF id \notin DOMAIN shortcuts THEN [panic |-> TRUE, handlers |-> {}]
    ELSE [panic |-> FALSE,
          handlers |-> IF shortcuts[id].request_key_input # None
                       THEN {shortcuts[id].request_key_input}
                       ELSE {}]

\* Model::context_drawer: no drawer without a context, else the drawer of
\* the model the context names.
Drawer ==
    IF shortcut_context = None THEN [panic |-> FALSE, handlers |-> {}]
    ELSE context_drawer(shortcut_models, shortcut_context)

\* The rows the key-capture widgets of the shown drawer publish for.
Widgets == Drawer.handlers

\* ------------------------------------------------------------ the machine
\* The "defaults" table the store holds: the first key, with Ctrl, is the
\* system default of the page's first action.
DefaultsChoices == {Insert(EmptyShortcuts, Binding({"ctrl"}, 1), PageActions[1])}

\* The "custom" table the store holds at start: no entry of the user's own.
CustomChoices == {EmptyShortcuts}

\* The operations that may write the custom table or resolve a confirmation.
Commits ==
    {"OnEnter", "SubmitBinding", "LeaveEdit", "KeyPressed", "ApplyReplace", "CancelReplace",
     "DeleteBinding", "DeleteShortcut", "ResetBindings"}

NoOperation ==
    [msg |-> "new", tag |-> "", binding |-> DefaultBinding, flag |-> FALSE]

\* The store as the handlers start with it, with the operations in w recorded
\* and the calls of the kinds in f ("read": config.get of "custom",
\* "defaults": config.get of "defaults", "write": config.set of "custom") able
\* to return an error.
Store(w, f) ==
    /\ config \in {[defaults |-> d, custom |-> c] : d \in DefaultsChoices, c \in CustomChoices}
    /\ failing = f
    /\ defaults = EmptyShortcuts
    /\ replace_dialog = <<>>
    /\ shortcut_models = EmptySlab
    /\ shortcut_context = None
    /\ panicked = FALSE
    /\ wrapped = FALSE
    /\ published = <<>>
    /\ unloaded = 0
    /\ last = NoOperation
    /\ watch = w

\* No run of the counting is followed.
NoFold == [pc |-> "idle"]

\* The program as it starts.
Start(w, f) == Store(w, f) /\ fold = NoFold

\* Model::default(): no models, no context, no dialog; the store holds its
\* tables and answers every call.
Init == Start(Commits, {})

\* The rows in the middle of an edit.
EditedRows(r) ==
    {mi \in UNION {{<<m, i>> : i \in DOMAIN r.models[m].bindings} : m \in DOMAIN r.models} :
        LET row == r.models[mi[1]].bindings[mi[2]]
        IN Len(row.input) > 0 \/ row.editing \/ r.models[mi[1]].request_key_input = mi[2]}
    \cup (IF Len(r.dialog) > 0 THEN {<<r.ctx, r.dialog[1].id>>} ELSE {})

\* Whether outcome r leaves every field of the program as it is.
Same(r) ==
    /\ r.models = shortcut_models /\ r.cfg = config /\ r.ctx = shortcut_context
    /\ r.dialog = replace_dialog /\ r.defaults = defaults /\ ~r.panic
    /\ r.abort = <<>>

\* Whether the handler of msg ran Model::on_enter on the branch tag.
RanOnEnter(msg, tag) ==
    \/ tag \in {"reloaded", "committed", "applied", "default", "custom", "reset"}
    \/ msg = "ApplyReplace" /\ tag = "norow"
    \/ msg = "ResetBindings" /\ tag = "nomodel"

\* Whether the handler of msg ran Model::shortcuts_config_set on the branch
\* tag, whatever the store answered.
RanSet(msg, tag) ==
    \/ tag \in {"committed", "applied", "default", "custom", "reset"}
    \/ msg = "ApplyReplace" /\ tag = "norow"
    \/ msg = "DeleteShortcut" /\ tag = "reloaded"

\* The functions of Model that write the store and that a page calls by
\* themselves (pub(super)), as well as the handlers do.
StoreCalls == {"config_add", "config_remove", "shortcuts_config_set"}

\* Whether the handler of msg, or the call msg of a page, read or wrote
\* "custom" on the branch tag.
CalledStore(msg, tag) ==
    RanOnEnter(msg, tag) \/ RanSet(msg, tag) \/ tag = "staged" \/ msg \in StoreCalls

\* An operation that is not recorded: what is kept of it is whether it was a
\* handler that wrote the store and reloaded ("wrote") or only reloaded
\* ("reloaded"), or a store call of a page, which does not reload ("called").
Unrecorded(msg, tag) ==
    [msg |-> "other",
     tag |-> IF RanSet(msg, tag) THEN "wrote"
             ELSE IF RanOnEnter(msg, tag) THEN "reloaded"
             ELSE IF msg \in StoreCalls THEN "called" ELSE "",
     binding |-> DefaultBinding, flag |-> FALSE]

\* What last becomes: the record of a watched operation that changed the
\* state, called the store, or whose branch is itself watched; Unrecorded
\* after any other.
Record(r, msg) ==
    IF msg \in watch /\ (~Same(r) \/ r.tag \in watch \/ CalledStore(msg, r.tag))
    THEN [msg |-> msg, tag |-> r.tag, binding |-> r.binding, flag |-> r.flag]
    ELSE Unrecorded(msg, r.tag)

\* The outcome r in the build with overflow checks, when an increment of the
\* counter overflowed: the handler panicked in on_enter, and the store, the
\* fields the handler had set and the branch it had taken are as they were
\* then.
Aborted(r) == r.abort[1]

\* What outcome r is in the builds the program can be: itself when no
\* increment overflowed; else the panic of the build with overflow checks,
\* or r with the counter wrapped, in the build without. A program whose
\* counter has wrapped before is the build without checks.
Builds(r) ==
    IF r.abort = <<>> \/ wrapped THEN {r} ELSE {r, Aborted(r)}

\* The state after a handler with outcome r. The message the widget
\* published ("on_event") leaves the queue as update handles it.
Becomes(r, msg) ==
    /\ ~panicked
    /\ Cardinality(EditedRows(r)) <= MaxEdits
    /\ \E built \in Builds(r) :
          /\ config' = built.cfg
          /\ defaults' = built.defaults
          /\ replace_dialog' = built.dialog
          /\ shortcut_models' = built.models
          /\ shortcut_context' = built.ctx
          /\ panicked' = built.panic
          /\ wrapped' = (wrapped \/ built.abort # <<>>)
          /\ last' = Record(built, msg)
    /\ published' = IF msg = "on_event" THEN Tail(published) ELSE published
    /\ unloaded' = IF msg \in StoreCalls THEN unloaded + 1
                   ELSE IF msg = "OnEnter" THEN 0 ELSE unloaded
    /\ fold' = fold
    /\ watch' = watch
    /\ failing' = failing

\* ------------------------------------------------------------ store faults
\* Every call of the store fails or succeeds by itself ("read": config.get of
\* "custom" returns an error other than NotFound; "defaults": config.get of
\* "defaults" returns an error; "write": config.set of "custom" returns an
\* error). An absent "custom" key (NotFound) reads as the empty table: it is
\* the store with an empty custom.
\* The ways the calls of a handler can fail, reads being the numbers of the
\* reads of custom whose answer it uses, dreads those of its reads of the
\* defaults and writes those of its writes: any of the reads and any of the
\* writes, of the kinds that may fail at all.
Faults(reads, dreads, writes) ==
    {[read |-> R, defaults |-> D, write |-> W] :
        R \in IF "read" \in failing THEN SUBSET reads ELSE {{}},
        D \in IF "defaults" \in failing THEN SUBSET dreads ELSE {{}},
        W \in IF "write" \in failing THEN SUBSET writes ELSE {{}}}

\* The calls that fail in a or in b.
Join(a, b) ==
    [read |-> a.read \cup b.read, defaults |-> a.defaults \cup b.defaults,
     write |-> a.write \cup b.write]

\* The ways the calls of a handler with two phases can fail. The answer of a
\* call matters to what the handler does after it only: first are the ways
\* the calls of the first phase can fail, goes_on those of them after which
\* the handler makes the calls of the second, and rest the ways these can
\* fail. The second phase uses no answer of the first, so one way of
\* reaching it stands for all.
Phased(first, goes_on, rest) ==
    first \cup (IF goes_on = {} THEN {}
                ELSE {Join(CHOOSE io \in goes_on : TRUE, later) : later \in rest})

\* The lookup of a candidate's owner (config_contains) reads the defaults and
\* custom, by the handler's n-th read of custom.
LookupFaults(n) == Faults({n}, {n}, {})

\* The commit after a lookup by the n-th read: config_remove and config_add
\* read and write custom, and on_enter reads the defaults and custom.
CommitFaults(n) == Faults(n + 1 .. n + 3, {n + 3}, 1 .. 2)

\* The outcomes of the handler of msg: answered is its outcome when the store
\* answers every call, all its outcomes over the ways its store calls can
\* fail. What a handler does before its first store call depends on no
\* answer of the store: when it makes none with every call answered, it makes
\* none at all and has that one outcome.
Outcomes(answered, all, msg) ==
    IF CalledStore(msg, answered.tag) THEN all ELSE {answered}

\* The rows of model id, when there is one.
RowsOf(id) ==
    IF id \in DOMAIN shortcut_models
    THEN Cardinality(DOMAIN shortcut_models[id].bindings) ELSE 0

\* The removals ResetBindings makes: one for each row of the active model and
\* one for each default of its action.
Removals ==
    IF HasModel(shortcut_models, shortcut_context)
    THEN RowsOf(shortcut_context)
         + Len(ShortcutsOf(GetDefaults(NoFault, config, 0),
                           shortcut_models[shortcut_context].action))
    ELSE 0

\* ------------------------------------------------------ calls of the pages
\* A page calls at most this many of config_add, config_remove and
\* shortcuts_config_set before it calls on_enter.
MaxStoreCalls == 1
\* A page makes these calls with at most this many rows in the middle of an
\* edit.
MaxCallEdits == 0

\* The page has reloaded the models since its last call that wrote the
\* store. The pages make these calls and on_enter inside one update of
\* theirs (on_enter is "always called after any write"), so no message is
\* handled and no view is built in between.
Loaded == unloaded = 0

\* A page may call a function that writes the store.
Callable ==
    /\ unloaded < MaxStoreCalls
    /\ Cardinality(EditedRows(Keep("", DefaultBinding))) <= MaxCallEdits

\* The bindings a page hands to config_add and config_remove.
CallBindings == {b \in SetBindings : b.key \in KeysInUse}

\* The actions a page hands to config_add for binding: the actions it lists,
\* and the marker Disable for a binding of the defaults, which it suppresses.
CallActions(binding) ==
    {PageActions[k] : k \in 1 .. Len(PageActions)}
    \cup (IF binding \in DOMAIN config.defaults THEN {Disable} ELSE {})

\* The tables a page hands to shortcuts_config_set.
CallTables ==
    {EmptyShortcuts}
    \cup {Insert(EmptyShortcuts, b, PageActions[k]) :
             b \in CallBindings, k \in 1 .. Len(PageActions)}

\* ------------------------------------------------------------ the messages
\* Model::on_enter, when the page is entered: one read of the defaults and
\* one of custom.
OnEnterResult(io) ==
    Entered(io, Keep("reloaded", DefaultBinding), 1)

OnEnter ==
    \E r \in Outcomes(OnEnterResult(NoFault),
                      {OnEnterResult(io) : io \in Faults(1 .. 1, {1}, {})}, "OnEnter") :
        Becomes(r, "OnEnter")

\* Model::on_clear, when the page is left: the models are dropped; the
\* context, the dialog and the defaults stay.
OnClear ==
    /\ Loaded
    /\ \E r \in {[Keep("cleared", DefaultBinding) EXCEPT !.models = EmptySlab]} :
           Becomes(r, "OnClear")

AddKeybinding ==
    /\ Loaded
    /\ \E r \in {AddKeybindingResult} :
           /\ r.tag = "inserted"
                 => Cardinality(DOMAIN shortcut_models[shortcut_context].bindings)
                        < RowLimit
           /\ Becomes(r, "AddKeybinding")

\* ApplyReplace reads custom in its three config calls and in on_enter, and
\* writes it in the three; when the row is gone it makes the first config
\* call and on_enter only. on_enter reads the defaults.
ApplyReplace ==
    /\ Loaded
    /\ \E r \in Outcomes(ApplyReplaceResult(NoFault),
                         {ApplyReplaceResult(io) :
                             io \in IF ApplyReplaceResult(NoFault).tag = "applied"
                                    THEN Faults(1 .. 4, {4}, 1 .. 3)
                                    ELSE Faults(1 .. 2, {2}, 1 .. 1)},
                         "ApplyReplace") :
           Becomes(r, "ApplyReplace")

CancelReplace == Loaded /\ \E r \in {CancelReplaceResult} : Becomes(r, "CancelReplace")

\* DeleteBinding reads custom in its config call and in on_enter, which
\* reads the defaults.
DeleteBinding(id) ==
    /\ Loaded
    /\ \E r \in Outcomes(DeleteBindingResult(NoFault, id),
                         {DeleteBindingResult(io, id) : io \in Faults(1 .. 2, {2}, 1 .. 1)},
                         "DeleteBinding") :
           Becomes(r, "DeleteBinding")

\* DeleteShortcut reads custom twice and writes it once for each row; the
\* second read of each row is on_enter's, which reads the defaults.
DeleteShortcut(id) ==
    /\ Loaded
    /\ \E r \in Outcomes(DeleteShortcutResult(NoFault, id),
                         {DeleteShortcutResult(io, id) :
                             io \in Faults(1 .. 2 * RowsOf(id), {2 * k : k \in 1 .. RowsOf(id)},
                                          1 .. RowsOf(id))},
                         "DeleteShortcut") :
           Becomes(r, "DeleteShortcut")

\* Leaving the edit with a buffer that parses submits it: the owner is looked
\* up, the commit reads custom twice and on_enter once; the lookup and
\* on_enter read the defaults.
EditBinding(id, enable) ==
    /\ Loaded
    /\ \E r \in Outcomes(EditBindingResult(NoFault, id, enable),
                         {EditBindingResult(io, id, enable) :
                             io \in Phased(LookupFaults(1),
                                           {io \in LookupFaults(1) :
                                               EditBindingResult(io, id, enable).tag = "committed"},
                                           CommitFaults(1))},
                         IF enable THEN "EditBinding" ELSE "LeaveEdit") :
           Becomes(r, IF enable THEN "EditBinding" ELSE "LeaveEdit")

InputBinding(id, text) ==
    Loaded /\ \E r \in {InputBindingResult(id, text)} : Becomes(r, "InputBinding")

SubmitBinding(id) ==
    /\ Loaded
    /\ \E r \in Outcomes(SubmitBindingResult(NoFault, id),
                         {SubmitBindingResult(io, id) :
                             io \in Phased(LookupFaults(1),
                                           {io \in LookupFaults(1) :
                                               SubmitBindingResult(io, id).tag = "committed"},
                                           CommitFaults(1))},
                         "SubmitBinding") :
           Becomes(r, "SubmitBinding")

PressBinding(id) == Loaded /\ \E r \in {PressBindingResult(id)} : Becomes(r, "PressBinding")

\* ResetBindings reads and writes custom once for each removal, and reads
\* the defaults and custom in on_enter. It reads the defaults before its
\* second loop (read 0): when that read fails it skips the loop, and removes
\* the bindings of the rows only.
ResetFaults ==
    Faults(1 .. Removals + 1, {Removals + 1}, 1 .. Removals)
    \cup {Join(unread, io) :
             unread \in Faults({}, {0}, {}) \ {NoFault},
             io \in Faults(1 .. RowsOf(shortcut_context) + 1, {RowsOf(shortcut_context) + 1},
                           1 .. RowsOf(shortcut_context))}

ResetBindings ==
    /\ Loaded
    /\ \E r \in Outcomes(ResetBindingsResult(NoFault),
                         {ResetBindingsResult(io) : io \in ResetFaults},
                         "ResetBindings") :
           Becomes(r, "ResetBindings")

ShowShortcut(id) == Loaded /\ \E r \in {ShowShortcutResult(id)} : Becomes(r, "ShowShortcut")

\* KeyPressed reads the defaults and custom for the view it logs, which it
\* does not use, then as a submit does.
KeyPressed(id, key, modifiers) ==
    /\ Loaded
    /\ \E r \in Outcomes(KeyPressedResult(NoFault, id, key, modifiers),
                         {KeyPressedResult(io, id, key, modifiers) :
                             io \in Phased(LookupFaults(2),
                                           {io \in LookupFaults(2) :
                                               KeyPressedResult(io, id, key, modifiers).tag
                                                   = "committed"},
                                           CommitFaults(2))},
                         "KeyPressed") :
           Becomes(r, "KeyPressed")

\* Model::config_add(action, binding), called by a page: one read and one
\* write of custom, and nothing of the Model changes.
ConfigAdd(action, binding) ==
    /\ Callable
    /\ \E r \in {[Keep("added", binding) EXCEPT
                     !.cfg = config_add(io, config, action, binding, 1, 1)] :
                     io \in Faults(1 .. 1, {}, 1 .. 1)} :
          Becomes(r, "config_add")

\* Model::config_remove(binding), called by a page: one read and one write.
ConfigRemove(binding) ==
    /\ Callable
    /\ \E r \in {[Keep("removed", binding) EXCEPT
                     !.cfg = config_remove(io, config, binding, 1, 1)] :
                     io \in Faults(1 .. 1, {}, 1 .. 1)} :
          Becomes(r, "config_remove")

\* Model::shortcuts_config_set(shortcuts), called by a page: one write.
ShortcutsConfigSet(shortcuts) ==
    /\ Callable
    /\ \E r \in {[Keep("set", DefaultBinding) EXCEPT
                     !.cfg = shortcuts_config_set(io, config, shortcuts, 1)] :
                     io \in Faults({}, {}, 1 .. 1)} :
          Becomes(r, "shortcuts_config_set")

Next ==
    \/ OnEnter
    \/ \E binding \in CallBindings : \E action \in CallActions(binding) : ConfigAdd(action, binding)
    \/ \E binding \in CallBindings : ConfigRemove(binding)
    \/ \E shortcuts \in CallTables : ShortcutsConfigSet(shortcuts)
    \/ OnClear
    \/ AddKeybinding
    \/ ApplyReplace
    \/ CancelReplace
    \/ \E id \in Ids : DeleteBinding(id)
    \/ \E id \in Ids : DeleteShortcut(id)
    \/ \E id \in Ids, enable \in BOOLEAN : EditBinding(id, enable)
    \/ \E id \in Ids, text \in Typeable : InputBinding(id, text)
    \/ \E id \in Ids : SubmitBinding(id)
    \/ \E id \in Ids : PressBinding(id)
    \/ ResetBindings
    \/ \E id \in Ids : ShowShortcut(id)
    \/ \E id \in Ids, key \in Pressable, modifiers \in PressedModifiers :
          KeyPressed(id, key, modifiers)

Spec == Init /\ [][Next]_vars

\* The pane over a store whose reads of the custom table and of the defaults
\* table may fail.
SpecRead == Start({"OnEnter"}, {"read", "defaults"}) /\ [][Next]_vars
\* The pane over a store whose writes of the custom table may fail.
SpecWrite ==
    Start({"SubmitBinding", "LeaveEdit", "KeyPressed", "parse_error"}, {"write"})
    /\ [][Next]_vars

\* ----------------------------------------------------------- the shown pane
\* The messages in flight, at most.
MaxPublished == 2

\* The view calls Model::context_drawer: building the drawer aborts the
\* program when the context names a vacant slot, and changes nothing
\* otherwise.
ContextDrawer ==
    /\ Loaded
    /\ ~panicked
    /\ panicked' = Drawer.panic
    /\ UNCHANGED <<config, failing, defaults, replace_dialog, shortcut_models,
                   shortcut_context, wrapped, published, fold, unloaded, watch, last>>

\* An event reaches the key-capture widget of the drawer: shell.publish
\* queues the message it publishes, if any, behind those in flight.
OnEvent(event) ==
    /\ Loaded
    /\ ~panicked
    /\ \E binding_id \in Widgets :
          LET out == on_event(binding_id, event)
          IN /\ Len(published) + Len(out.published) <= MaxPublished
             /\ published' = published \o out.published
    /\ UNCHANGED <<config, failing, defaults, replace_dialog, shortcut_models,
                   shortcut_context, panicked, wrapped, fold, unloaded, watch, last>>

\* The runtime hands the first message in flight to update: the KeyPressed
\* handler runs on the state as it is by then.
Update ==
    /\ Loaded
    /\ Len(published) > 0
    /\ \E r \in Outcomes(KeyPressedResult(NoFault, Head(published).binding_id,
                                          Head(published).key, Head(published).modifiers),
                         {KeyPressedResult(io, Head(published).binding_id,
                                           Head(published).key, Head(published).modifiers) :
                             io \in Phased(LookupFaults(2),
                                           {io \in LookupFaults(2) :
                                               KeyPressedResult(io, Head(published).binding_id,
                                                                Head(published).key,
                                                                Head(published).modifiers).tag
                                                   = "committed"},
                                           CommitFaults(2))},
                         "on_event") :
          Becomes(r, "on_event")

NextPane ==
    \/ Next
    \/ ContextDrawer
    \/ \E event \in {e \in Events : e.kind = "KeyPressed" => e.key \in Pressable} :
          OnEvent(event)
    \/ Update

\* The pane with its key-capture widget, recording what is shown, which row
\* listens and what the widget's events lead to.
SpecPane ==
    Start({"ShowShortcut", "on_event", "ignored"}, {}) /\ [][NextPane]_vars

\* ------------------------------------------------- ShortcutModel::new, counted
\* The tables ShortcutModel::new is called with for an action, by what their
\* entries are to the counter: the rows that are defaults of the action
\* (default_rows), the rows that are not (custom_rows), and the defaults of
\* the action that no row holds (unheld).
Tables ==
    {[default_rows |-> 1, custom_rows |-> 1, unheld |-> 1],
     [default_rows |-> 0, custom_rows |-> MaxU16, unheld |-> 1],
     [default_rows |-> 0, custom_rows |-> MaxU16 + 1, unheld |-> 0]}

\* ShortcutModel::new is called with table t: the first fold has all its rows
\* to visit, the second all the defaults of the action, and the count is 0.
NewCalled(t) ==
    [pc |-> "rows", table |-> t,
     default_rows |-> t.default_rows, custom_rows |-> t.custom_rows,
     held |-> t.default_rows, unheld |-> t.unheld,
     count |-> NoCount]

\* The run of the counting after a step that leaves the count c: when the
\* step overflowed the counter, the build with overflow checks has panicked,
\* and the one without goes on with the wrapped count.
Counted(run, c) ==
    IF c.overflow /\ ~run.count.overflow /\ ~wrapped
    THEN {[run EXCEPT !.count = c], [run EXCEPT !.pc = "aborted"]}
    ELSE {[run EXCEPT !.count = c]}

\* One step of the first fold (line 83), on a row that is a default of the
\* action or on one that is not.
FoldRow ==
    /\ fold.pc = "rows"
    /\ \E is_default \in {b \in BOOLEAN : IF b THEN fold.default_rows > 0
                                            ELSE fold.custom_rows > 0} :
          \E run \in Counted([fold EXCEPT
                                  !.default_rows = IF is_default THEN @ - 1 ELSE @,
                                  !.custom_rows = IF is_default THEN @ ELSE @ - 1],
                              NewCount(fold.count, is_default)) :
              /\ fold' = run
              /\ panicked' = (run.pc = "aborted")
              /\ wrapped' = (wrapped \/ (run.pc # "aborted" /\ run.count.overflow))
    /\ UNCHANGED <<config, failing, defaults, replace_dialog, shortcut_models,
                   shortcut_context, published, unloaded, watch, last>>

\* One step of the second fold (line 103), once the first has visited every
\* row: on a default of the action that a row holds or on one that none holds.
FoldDefault ==
    /\ fold.pc = "rows" /\ fold.default_rows = 0 /\ fold.custom_rows = 0
    /\ \E held \in {b \in BOOLEAN : IF b THEN fold.held > 0 ELSE fold.unheld > 0} :
          \E run \in Counted([fold EXCEPT !.held = IF held THEN @ - 1 ELSE @,
                                          !.unheld = IF held THEN @ ELSE @ - 1],
                              DefaultsCount(fold.count, held)) :
              /\ fold' = run
              /\ panicked' = (run.pc = "aborted")
              /\ wrapped' = (wrapped \/ (run.pc # "aborted" /\ run.count.overflow))
    /\ UNCHANGED <<config, failing, defaults, replace_dialog, shortcut_models,
                   shortcut_context, published, unloaded, watch, last>>

\* ShortcutModel::new returns the model with the count as modified.
NewReturns ==
    /\ fold.pc = "rows"
    /\ fold.default_rows = 0 /\ fold.custom_rows = 0 /\ fold.held = 0 /\ fold.unheld = 0
    /\ fold' = [fold EXCEPT !.pc = "returned"]
    /\ UNCHANGED <<config, failing, defaults, replace_dialog, shortcut_models,
                   shortcut_context, panicked, wrapped, published, unloaded,
                   watch, last>>

NextNew == FoldRow \/ FoldDefault \/ NewReturns

\* ShortcutModel::new counting the entries of a table, one step of a fold at
\* a time.
SpecNew ==
    /\ Store({}, {}) /\ fold \in {NewCalled(t) : t \in Tables}
    /\ [][NextNew]_vars

\* ------------------------------------------------------------- observations
\* The persisted custom table.
Custom == config.custom
\* The merged view a handler gets by its first read of custom: each binding
\* maps to its custom action if the custom table read has it, else to its
\* defaults action.
View(io, cfg) == shortcuts_system_config(io, cfg, 1)
\* The committed binding of every row of every model.
Committed(models) ==
    [m \in DOMAIN models |-> [i \in DOMAIN models[m].bindings |-> models[m].bindings[i].binding]]
\* The rows, over all models, whose committed binding is b.
Holders(models, b) ==
    {mi \in UNION {{<<m, i>> : i \in DOMAIN models[m].bindings} : m \in DOMAIN models} :
        models[mi[1]].bindings[mi[2]].binding = b}
\* The bindings held by the rows of model m.
Held(model) == {model.bindings[i].binding : i \in DOMAIN model.bindings}
\* The candidate binding of a typed commit of row id, when there is one.
Typed(id) == from_str(shortcut_models[shortcut_context].bindings[id].input)
\* The staged confirmation for row id, binding b and the owner
\* config_contains finds by the handler's n-th read of custom.
Staged(io, cfg, id, b, n) ==
    <<[id |-> id, binding |-> b, action |-> config_contains(io, cfg, b, n)[1],
       label |-> localize_action(config_contains(io, cfg, b, n)[1])]>>
\* Whether b is owned: config_contains finds an action for it by the
\* handler's n-th read of custom.
Owned(io, cfg, b, n) == config_contains(io, cfg, b, n) # <<>>

\* ------------------------------------------------------------------ claims

\* C1: a commit attempt (SubmitBinding, leaving edit with a parseable buffer,
\* or a mappable key press) whose candidate binding is set and already owned
\* stages the confirmation for that row, binding and owner, and changes
\* neither the custom table nor any row's committed binding.
C1_ConflictStagesOnly ==
    [][\A id \in Ids :
          /\ (/\ HasRow(shortcut_models, shortcut_context, id)
              /\ is_ok(Typed(id)) /\ is_set(Typed(id)[1]) /\ Owned(NoFault, config, Typed(id)[1], 1)
              /\ (SubmitBinding(id) \/ EditBinding(id, FALSE)))
             => /\ replace_dialog' = Staged(NoFault, config, id, Typed(id)[1], 1)
                /\ config' = config
                /\ Committed(shortcut_models') = Committed(shortcut_models)
          /\ \A key \in PressedKeys, modifiers \in PressedModifiers :
                (/\ HasRow(shortcut_models, shortcut_context, id)
                 /\ KeysymValue(key) # 0
                 /\ Owned(NoFault, config, Binding(modifiers, KeysymValue(key)), 2)
                 /\ KeyPressed(id, key, modifiers))
                => /\ replace_dialog' = Staged(NoFault, config, id, Binding(modifiers, KeysymValue(key)), 2)
                   /\ config' = config
                   /\ Committed(shortcut_models') = Committed(shortcut_models)
      ]_vars

\* C1 witness: a submit has just staged a confirmation for an owned binding.
C1_Witness ==
    /\ last.msg = "SubmitBinding" /\ last.tag = "staged"
    /\ Len(replace_dialog) = 1 /\ replace_dialog[1].binding = last.binding
    /\ Owned(NoFault, config, last.binding, 1)

\* C2 (as claimed): after ApplyReplace with a staged confirmation (id, B, A2)
\* whose row is in the active model, of action A, the custom table maps B to
\* A and, when A2 is another action, the merged view does not map B to A2.
C2_NewOwnerGains ==
    [][(/\ Len(replace_dialog) = 1
        /\ HasRow(shortcut_models, shortcut_context, replace_dialog[1].id)
        /\ ApplyReplace)
       => LET B == replace_dialog[1].binding
              A == shortcut_models[shortcut_context].action
              A2 == replace_dialog[1].action
          IN /\ B \in DOMAIN config'.custom /\ config'.custom[B] = A
             /\ A2 # A => ~(B \in DOMAIN View(NoFault, config') /\ View(NoFault, config')[B] = A2)
      ]_vars

\* C3 (as claimed): after ApplyReplace for a staged binding B has completed,
\* with its reload, exactly one row over all models holds B.
C3_ExactlyOneHolder ==
    [][(/\ Len(replace_dialog) = 1
        /\ HasRow(shortcut_models, shortcut_context, replace_dialog[1].id)
        /\ ApplyReplace)
       => Cardinality(Holders(shortcut_models', replace_dialog[1].binding)) = 1
      ]_vars

\* C4: CancelReplace clears the staged confirmation and changes nothing else:
\* the store, the models and the active context are as before.
C4_CancelOnlyClears ==
    [][CancelReplace
       => /\ replace_dialog' = <<>>
          /\ UNCHANGED <<config, shortcut_models, shortcut_context, defaults>>
      ]_vars

\* C4 witness: a staged confirmation has just been cancelled.
C4_Witness ==
    last.msg = "CancelReplace" /\ last.tag = "cancelled" /\ replace_dialog = <<>>

\* C5: after DeleteBinding on a row of the active model that is a default and
\* holds B, custom maps B to Disable, config_contains(B) is None, and no row
\* of the reloaded model of that action holds B.
C5_DeleteDefaultDisables ==
    [][\A id \in Ids :
          (/\ HasRow(shortcut_models, shortcut_context, id)
           /\ shortcut_models[shortcut_context].bindings[id].is_default
           /\ DeleteBinding(id))
          => LET B == shortcut_models[shortcut_context].bindings[id].binding
                 A == shortcut_models[shortcut_context].action
             IN /\ B \in DOMAIN config'.custom /\ config'.custom[B] = Disable
                /\ config_contains(NoFault, config', B, 1) = <<>>
                /\ \A m \in DOMAIN shortcut_models' :
                      shortcut_models'[m].action = A => B \notin Held(shortcut_models'[m])
      ]_vars

\* C5 witness: a default row has just been deleted and its binding is disabled.
C5_Witness ==
    /\ last.msg = "DeleteBinding" /\ last.tag = "default"
    /\ last.binding \in DOMAIN Custom /\ Custom[last.binding] = Disable

\* C6: after DeleteBinding on a row of the active model that is not a default
\* and holds B, B is not a key of custom and every other entry is as before.
C6_DeleteCustomRemoves ==
    [][\A id \in Ids :
          (/\ HasRow(shortcut_models, shortcut_context, id)
           /\ ~shortcut_models[shortcut_context].bindings[id].is_default
           /\ DeleteBinding(id))
          => LET B == shortcut_models[shortcut_context].bindings[id].binding
             IN /\ B \notin DOMAIN config'.custom
                /\ DOMAIN config'.custom = DOMAIN config.custom \ {B}
                /\ \A x \in DOMAIN config'.custom : config'.custom[x] = config.custom[x]
      ]_vars

\* C6 witness: a row holding a custom binding has just been deleted, and the
\* binding has left the custom table.
C6_Witness ==
    /\ last.msg = "DeleteBinding" /\ last.tag = "custom"
    /\ is_set(last.binding) /\ last.binding \notin DOMAIN Custom

\* C7 (as claimed): whenever DeleteBinding removes the last row of the active
\* model, default or not, shortcut_context is none afterwards.
C7_LastRowClearsContext ==
    [][\A id \in Ids :
          (/\ HasModel(shortcut_models, shortcut_context)
           /\ DOMAIN shortcut_models[shortcut_context].bindings = {id}
           /\ DeleteBinding(id))
          => shortcut_context' = None
      ]_vars

\* C8: no unset binding is a key of the persisted custom table.
C8_NoUnsetKey == \A b \in DOMAIN Custom : is_set(b)

\* C8 witness: a commit has completed and custom holds the binding it wrote.
C8_Witness ==
    /\ last.tag = "committed" /\ last.binding \in DOMAIN Custom
    /\ \E b \in DOMAIN Custom : Custom[b] = Disable

\* The last handler ran on_enter: the models are those it has just built.
Reloaded == RanOnEnter(last.msg, last.tag) \/ (last.msg = "other" /\ last.tag = "wrote")

\* C9 (as claimed): for every ShortcutModel as ShortcutModel::new builds it,
\* modified is the number of its rows whose binding the defaults do not map to
\* its action, plus the number of defaults of its action that none of its
\* rows holds: for the models a reload has just built, and for the count
\* ShortcutModel::new returns for a table with that many of each.
C9_ModifiedCount ==
    /\ Reloaded =>
          \A m \in DOMAIN shortcut_models :
              LET model == shortcut_models[m]
                  own == {b \in DOMAIN defaults : defaults[b] = model.action}
              IN model.modified =
                     Cardinality({i \in DOMAIN model.bindings :
                                     model.bindings[i].binding \notin own})
                     + Cardinality({b \in own : b \notin Held(model)})
    /\ fold.pc = "returned"
          => fold.count.modified = fold.table.custom_rows + fold.table.unheld

\* The last handler ran shortcuts_config_set: an update that writes the
\* custom table.
Wrote == RanSet(last.msg, last.tag) \/ (last.msg = "other" /\ last.tag = "wrote")

\* C10: after every update that writes the custom table, for every action of
\* the page the bindings held by the rows of its models are exactly the
\* bindings the merged view maps to it.
C10_ModelsReflectStore ==
    Wrote =>
        \A k \in 1 .. Len(PageActions) :
            UNION {Held(shortcut_models[m]) :
                      m \in {x \in DOMAIN shortcut_models :
                                shortcut_models[x].action = PageActions[k]}}
            = {b \in DOMAIN View(NoFault, config) : View(NoFault, config)[b] = PageActions[k]}

\* C10 witness: a key press has just committed a binding that a row now holds.
C10_Witness ==
    /\ last.msg = "KeyPressed" /\ last.tag = "committed"
    /\ Holders(shortcut_models, last.binding) # {}

\* C11: config_contains(b) is None when neither table has b or the entry that
\* counts is Disable, and else the action of the entry that counts: the
\* custom one when custom has b, the defaults one otherwise.
C11_ContainsMergedOwner ==
    \A b \in SetBindings \cup {DefaultBinding} :
        LET entry == IF b \in DOMAIN config.custom THEN <<config.custom[b]>>
                     ELSE IF b \in DOMAIN config.defaults THEN <<config.defaults[b]>>
                     ELSE <<>>
        IN config_contains(NoFault, config, b, 1) = (IF entry = <<Disable>> THEN <<>> ELSE entry)

\* C11 witness: custom overrides the default of another action, and
\* config_contains reports the overriding action.
C11_Witness ==
    \E b \in DOMAIN config.custom \cap DOMAIN config.defaults :
        /\ config.custom[b] \notin {Disable, config.defaults[b]}
        /\ config_contains(NoFault, config, b, 1) = <<config.custom[b]>>

\* C12: after ResetBindings on an active model of action A, no binding the
\* model held and no default of A is a key of custom, and the reloaded model
\* of A has exactly the defaults of A as rows, with modified = 0.
C12_ResetRestoresDefaults ==
    [][(HasModel(shortcut_models, shortcut_context) /\ ResetBindings)
       => LET model == shortcut_models[shortcut_context]
              own == {b \in DOMAIN config.defaults : config.defaults[b] = model.action}
          IN /\ (Held(model) \cup own) \cap DOMAIN config'.custom = {}
             /\ HasModel(shortcut_models', shortcut_context')
             /\ LET after == shortcut_models'[shortcut_context']
                IN /\ after.action = model.action
                   /\ Held(after) = own
                   /\ Cardinality(DOMAIN after.bindings) = Cardinality(own)
                   /\ after.modified = 0
      ]_vars

\* C12 witness: a reset has just changed the store, and the default of the
\* active model is back in its rows.
C12_Witness ==
    /\ last.msg = "ResetBindings" /\ last.tag = "reset" /\ last.flag
    /\ HasModel(shortcut_models, shortcut_context)
    /\ \E b \in Held(shortcut_models[shortcut_context]) : b \in DOMAIN defaults
    /\ shortcut_models[shortcut_context].modified = 0

\* C13 (as claimed): AddKeybinding on an active model that has a row with an
\* unset binding and an empty or unparseable edit buffer inserts no row.
C13_EmptyRowReused ==
    [][(/\ HasModel(shortcut_models, shortcut_context)
        /\ \E i \in DOMAIN shortcut_models[shortcut_context].bindings :
              LET row == shortcut_models[shortcut_context].bindings[i]
              IN ~is_set(row.binding) /\ (row.input = <<>> \/ ~is_ok(from_str(row.input)))
        /\ AddKeybinding)
       => DOMAIN shortcut_models'[shortcut_context].bindings
              = DOMAIN shortcut_models[shortcut_context].bindings
      ]_vars

\* Row id has a buffer that parses to a set binding nothing owns: a submit,
\* or leaving the edit, commits it.
TypedCommit(io, id) ==
    /\ HasRow(shortcut_models, shortcut_context, id)
    /\ is_ok(Typed(id)) /\ is_set(Typed(id)[1]) /\ ~Owned(io, config, Typed(id)[1], 1)
\* Row id exists and the key maps to a key-symbol whose binding nothing owns:
\* pressing it commits the binding.
PressedCommit(io, id, key, modifiers) ==
    /\ HasRow(shortcut_models, shortcut_context, id)
    /\ KeysymValue(key) # 0 /\ ~Owned(io, config, Binding(modifiers, KeysymValue(key)), 2)
\* In outcome r row id of the active model holds b, and custom is as before.
KeptInMemory(r, id, b) ==
    /\ HasRow(r.models, r.ctx, id)
    /\ r.models[r.ctx].bindings[id].binding = b
    /\ r.cfg.custom = config.custom
\* In outcome r the store is as before, no row holds b, and the rows of every
\* model hold what the merged view of the store maps to its action.
ReloadedFromStore(r, b) ==
    /\ r.cfg = config
    /\ Holders(r.models, b) = {}
    /\ \A m \in DOMAIN r.models :
          Held(r.models[m])
              = {x \in DOMAIN View(NoFault, config) : View(NoFault, config)[x] = r.models[m].action}

\* The runs of a commit handler in which both writes of the commit (the
\* removal of the row's previous binding and the insertion of the new one)
\* fail.
CommitWritesFail ==
    {io \in Faults(1 .. 5, {1, 2, 4, 5}, 1 .. 2) : ~CustomWriteOk(io, 1) /\ ~CustomWriteOk(io, 2)}

\* C14 (as claimed): when the writes of a commit fail, the edited row holds
\* the new binding after the handler and custom has its old content.
C14_FailedWriteKeepsCommit ==
    \A io \in CommitWritesFail, id \in Ids :
        /\ TypedCommit(io, id)
           => /\ KeptInMemory(SubmitBindingResult(io, id), id, Typed(id)[1])
              /\ KeptInMemory(EditBindingResult(io, id, FALSE), id, Typed(id)[1])
        /\ \A key \in PressedKeys, modifiers \in PressedModifiers :
              PressedCommit(io, id, key, modifiers)
              => KeptInMemory(KeyPressedResult(io, id, key, modifiers), id,
                              Binding(modifiers, KeysymValue(key)))

\* C14 (amended): when the writes of a commit fail, custom has its old
\* content and the reload that ends the handler rebuilds the models from it:
\* no row holds the new binding, every model holds what the store gives it.
C14_FailedWriteReloadsStore ==
    \A io \in CommitWritesFail, id \in Ids :
        /\ TypedCommit(io, id)
           => /\ ReloadedFromStore(SubmitBindingResult(io, id), Typed(id)[1])
              /\ ReloadedFromStore(EditBindingResult(io, id, FALSE), Typed(id)[1])
        /\ \A key \in PressedKeys, modifiers \in PressedModifiers :
              PressedCommit(io, id, key, modifiers)
              => ReloadedFromStore(KeyPressedResult(io, id, key, modifiers),
                                   Binding(modifiers, KeysymValue(key)))

\* C14 witness: a commit has ended over a store whose writes fail; its
\* binding is neither in custom nor in any row.
C14_Witness ==
    /\ CommitWritesFail # {} /\ last.tag = "committed" /\ is_set(last.binding)
    /\ last.binding \notin DOMAIN Custom
    /\ Holders(shortcut_models, last.binding) = {}

\* The runs of on_enter in which its read of the custom table fails, its
\* read of the defaults failing or not.
ReadsFail == {io \in Faults(1 .. 1, {1}, {}) : ~CustomReadOk(io, 1)}

\* C15: when reading the custom table fails, shortcuts_config is the empty
\* table and on_enter builds the models from the defaults table alone: they
\* are the models the factory builds over the defaults on_enter read, taken as
\* the merged table too, and the rows of each hold the bindings those defaults
\* map to its action (none when the read of the defaults failed as well).
\* Whichever reads fail, a handler aborts only on a handle that names no row
\* or model.
C15_ReadFailureDegrades ==
    [][/\ \A io \in ReadsFail :
             LET read == GetDefaults(io, config, 1)
                 models == on_enter(io, config, 1)
             IN /\ shortcuts_config(io, config, 1) = EmptyShortcuts
                /\ DOMAIN models # {}
                /\ models = actions(read, read)
                /\ \A m \in DOMAIN models :
                      Held(models[m]) = {b \in DOMAIN read : read[b] = models[m].action}
                /\ ~DefaultsReadOk(io, 1)
                      => \A m \in DOMAIN models : Held(models[m]) = {}
       /\ panicked'
             => \E id \in Ids :
                   \/ /\ HasModel(shortcut_models, shortcut_context)
                      /\ id \notin DOMAIN shortcut_models[shortcut_context].bindings
                      /\ DeleteBinding(id)
                   \/ id \notin DOMAIN shortcut_models /\ DeleteShortcut(id)
      ]_vars

\* C15 witness: on_enter has run and its read of custom failed: a binding
\* the custom table gives to an action is in no row of that action's model.
C15_Witness ==
    /\ ReadsFail # {} /\ last.msg = "OnEnter"
    /\ \E b \in DOMAIN Custom :
          /\ Custom[b] # Disable
          /\ b \in DOMAIN config.defaults => config.defaults[b] # Custom[b]
          /\ \A m \in DOMAIN shortcut_models :
                shortcut_models[m].action = Custom[b] => b \notin Held(shortcut_models[m])

\* C16: SubmitBinding on a row whose edit buffer does not parse changes
\* nothing: the rows (buffers, bindings, flags), the dialog, the context and
\* the store are as before.
C16_ParseErrorChangesNothing ==
    [][\A id \in Ids :
          (/\ HasRow(shortcut_models, shortcut_context, id)
           /\ ~is_ok(Typed(id))
           /\ SubmitBinding(id))
          => UNCHANGED <<config, defaults, replace_dialog, shortcut_models, shortcut_context>>
      ]_vars

\* C16 witness: a submit has just failed to parse, and the buffer is there.
C16_Witness ==
    /\ last.msg = "SubmitBinding" /\ last.tag = "parse_error"
    /\ HasModel(shortcut_models, shortcut_context)
    /\ \E i \in DOMAIN shortcut_models[shortcut_context].bindings :
          LET row == shortcut_models[shortcut_context].bindings[i]
          IN row.input # <<>> /\ ~is_ok(from_str(row.input))

\* C17: after DeleteShortcut(id) on an existing model, no binding its rows
\* held is a key of custom, and when it had rows the models are those one
\* reload of the final store builds.
C17_DeleteShortcutClearsCustom ==
    \A id \in DOMAIN shortcut_models :
        LET r == DeleteShortcutResult(NoFault, id)
        IN /\ Held(shortcut_models[id]) \cap DOMAIN r.cfg.custom = {}
           /\ DOMAIN shortcut_models[id].bindings # {}
              => r.models = actions(r.cfg.defaults, View(NoFault, r.cfg))

\* C17 witness: a DeleteShortcut has just removed a binding from custom.
C17_Witness ==
    /\ last.msg = "DeleteShortcut" /\ last.tag = "reloaded" /\ last.flag
    /\ \A b \in SetBindings : b \in DOMAIN Custom => Custom[b] = Disable
    /\ shortcut_models = actions(config.defaults, View(NoFault, config))

\* C18: a key press that maps to a key-symbol, forming B, leaves the store,
\* the dialog and the models as typing the string of B into the row and
\* submitting does, and besides leaves the request_key_input marker clear.
C18_PressedAsTyped ==
    \A id \in Ids, key \in PressedKeys, modifiers \in PressedModifiers :
        (HasRow(shortcut_models, shortcut_context, id) /\ KeysymValue(key) # 0)
        => LET B == Binding(modifiers, KeysymValue(key))
               pressed == KeyPressedResult(NoFault, id, key, modifiers)
               typed == submit_binding(NoFault, InputBindingResult(id, to_string(B)), id)
           IN /\ pressed.cfg = typed.cfg
              /\ pressed.dialog = typed.dialog
              /\ pressed.ctx = typed.ctx
              /\ pressed.models
                     = [typed.models EXCEPT ![typed.ctx].request_key_input = None]

\* C18 witness: a key press has just staged a confirmation on a row that was
\* listening; the row's buffer is the string of the binding.
C18_Witness ==
    /\ last.msg = "KeyPressed" /\ last.tag = "staged"
    /\ Len(replace_dialog) = 1 /\ replace_dialog[1].binding = last.binding
    /\ HasRow(shortcut_models, shortcut_context, replace_dialog[1].id)
    /\ shortcut_models[shortcut_context].bindings[replace_dialog[1].id].input
           = to_string(last.binding)
    /\ shortcut_models[shortcut_context].request_key_input = None

\* C19: the merged table on_enter builds is the table shortcuts_system_config
\* returns, whatever the outcome of reading custom and of reading the
\* defaults: each binding maps to its custom action when the custom table
\* read has it, else to its default in the defaults table read.
C19_MergedIsSystemConfig ==
    \A io \in Faults(1 .. 1, {1}, {}) :
        LET read == IF CustomReadOk(io, 1) THEN config.custom ELSE EmptyShortcuts
            system == IF DefaultsReadOk(io, 1) THEN config.defaults ELSE EmptyShortcuts
        IN /\ Merged(io, config, 1) = shortcuts_system_config(io, config, 1)
           /\ DOMAIN Merged(io, config, 1) = DOMAIN system \cup DOMAIN read
           /\ \A b \in DOMAIN Merged(io, config, 1) :
                 Merged(io, config, 1)[b]
                     = IF b \in DOMAIN read THEN read[b] ELSE system[b]

\* C19 witness: custom overrides a default with another action, and on_enter
\* has built the models from the merged table that maps it to that action.
C19_Witness ==
    /\ last.msg = "OnEnter"
    /\ \E b \in DOMAIN config.custom \cap DOMAIN config.defaults :
          /\ config.custom[b] \notin {Disable, config.defaults[b]}
          /\ Merged(NoFault, config, 1)[b] = config.custom[b]
          /\ \E mi \in Holders(shortcut_models, b) :
                shortcut_models[mi[1]].action = config.custom[b]

\* C20 (as claimed): EditBinding(id, false) on a row whose buffer does not
\* parse leaves the row's buffer empty, and custom and the row's committed
\* binding as before.
C20_LeaveEditDiscards ==
    [][\A id \in Ids :
          (/\ HasRow(shortcut_models, shortcut_context, id)
           /\ ~is_ok(Typed(id))
           /\ EditBinding(id, FALSE))
          => /\ shortcut_models'[shortcut_context].bindings[id].input = <<>>
             /\ config' = config
             /\ Committed(shortcut_models') = Committed(shortcut_models)
      ]_vars

\* C20 (amended): EditBinding(id, false) on a row whose buffer does not parse
\* clears the row's editing flag and nothing else: the buffer is kept, and
\* the store, the committed bindings, the dialog and the context are as before.
C20_LeaveEditKeepsBuffer ==
    [][\A id \in Ids :
          (/\ HasRow(shortcut_models, shortcut_context, id)
           /\ ~is_ok(Typed(id))
           /\ EditBinding(id, FALSE))
          => /\ shortcut_models' =
                    [shortcut_models EXCEPT ![shortcut_context].bindings[id].editing = FALSE]
             /\ UNCHANGED <<config, defaults, replace_dialog, shortcut_context>>
      ]_vars

\* C20 witness: an edit has just been left with a buffer that does not parse,
\* and the buffer is still there.
C20_Witness ==
    /\ last.msg = "LeaveEdit" /\ last.tag = "left"
    /\ HasModel(shortcut_models, shortcut_context)
    /\ \E i \in DOMAIN shortcut_models[shortcut_context].bindings :
          LET row == shortcut_models[shortcut_context].bindings[i]
          IN ~row.editing /\ row.input # <<>> /\ ~is_ok(from_str(row.input))

\* Whether outcome r differs from the current state in the models only.
OnlyModels(r) ==
    /\ r.cfg = config /\ r.ctx = shortcut_context /\ r.dialog = replace_dialog
    /\ r.defaults = defaults /\ ~r.panic

\* C21: when the buffer of row id parses to an unset binding, SubmitBinding
\* empties that buffer, leaving edit empties it and ends the edit, and
\* neither does anything else: no confirmation is staged, the store is not
\* written and the models are not reloaded.
C21_UnsetOnlyClears ==
    \A id \in Ids :
        (/\ HasRow(shortcut_models, shortcut_context, id)
         /\ is_ok(Typed(id)) /\ ~is_set(Typed(id)[1]))
        => LET cleared == [shortcut_models EXCEPT
                              ![shortcut_context].bindings[id].input = <<>>]
               submitted == SubmitBindingResult(NoFault, id)
               left == EditBindingResult(NoFault, id, FALSE)
           IN /\ OnlyModels(submitted) /\ submitted.models = cleared
              /\ OnlyModels(left)
              /\ left.models = [cleared EXCEPT
                                   ![shortcut_context].bindings[id].editing = FALSE]

\* C21 witness: a submit has just emptied a buffer that held modifiers only.
C21_Witness ==
    /\ last.msg = "SubmitBinding" /\ last.tag = "unset"
    /\ HasModel(shortcut_models, shortcut_context)
    /\ DOMAIN shortcut_models[shortcut_context].bindings # {}
    /\ \A i \in DOMAIN shortcut_models[shortcut_context].bindings :
           shortcut_models[shortcut_context].bindings[i].input = <<>>
    /\ replace_dialog = <<>>

\* C22: a KeyPressed whose key has no key-symbol (a bare modifier, a named
\* key without mapping, an unidentified key) changes nothing: the store, the confirmation, every row
\* and every model's listening row are as before.
C22_UnmappedKeyIgnored ==
    \A id \in Ids, key \in PressedKeys \cup UnmappedKeys, modifiers \in PressedModifiers :
        KeysymValue(key) = 0 => Same(KeyPressedResult(NoFault, id, key, modifiers))

\* C22 witness: the widget has delivered a key without key-symbol for the
\* listening row, and the row still listens.
C22_Witness ==
    /\ last.msg = "on_event" /\ last.tag = "ignored" /\ last.flag
    /\ Widgets # {}

\* No model listens for a key and no row is being edited.
Quiet(models) ==
    \A m \in DOMAIN models :
        /\ models[m].request_key_input = None
        /\ \A i \in DOMAIN models[m].bindings : ~models[m].bindings[i].editing

\* C23: PressBinding(id) makes the active model listen for row id when id is
\* one of its rows and changes nothing otherwise; after a commit, which
\* reloads, no model listens and no row is being edited.
C23_ListensForExistingRow ==
    \A id \in Ids :
        /\ LET r == PressBindingResult(id)
           IN IF HasRow(shortcut_models, shortcut_context, id)
              THEN /\ OnlyModels(r)
                   /\ r.models = [shortcut_models EXCEPT
                                     ![shortcut_context].request_key_input = id]
              ELSE Same(r)
        /\ \A r \in {SubmitBindingResult(NoFault, id), EditBindingResult(NoFault, id, FALSE), ApplyReplaceResult(NoFault)}
                    \cup {KeyPressedResult(NoFault, id, key, modifiers) :
                             key \in PressedKeys, modifiers \in PressedModifiers} :
               r.tag \in {"committed", "applied"} => Quiet(r.models)

\* C23 witness: a row listened, the widget delivered a key press that was
\* committed, and nothing listens any more.
C23_Witness ==
    /\ last.msg = "on_event" /\ last.tag = "committed"
    /\ Quiet(shortcut_models)
    /\ Holders(shortcut_models, last.binding) # {}

\* C24: for every event delivered to a key-capture widget, the widget
\* publishes exactly one KeyPressed message with its row id and the event's
\* key and modifiers and returns Captured when the event is a key press, and
\* publishes nothing and returns Ignored when it is any other event.
C24_WidgetPublishesKeyPress ==
    \A binding_id \in Widgets, event \in Events :
        LET out == on_event(binding_id, event)
        IN IF event.kind = "KeyPressed"
           THEN /\ out.published = <<[msg |-> "KeyPressed", binding_id |-> binding_id,
                                      key |-> event.key, modifiers |-> event.modifiers]>>
                /\ out.status = "Captured"
           ELSE out.published = <<>> /\ out.status = "Ignored"

\* C24 witness: the message the widget published for a key press carried the
\* row and the key: it staged the confirmation for that row and binding.
C24_Witness ==
    /\ last.msg = "on_event" /\ last.tag = "staged"
    /\ Len(replace_dialog) = 1 /\ replace_dialog[1].binding = last.binding
    /\ HasRow(shortcut_models, shortcut_context, replace_dialog[1].id)

\* C25: ShowShortcut(id) makes id the active context and discards a staged
\* confirmation; the store and every row of every model are as before.
C25_ShowSetsContext ==
    \A id \in Ids :
        LET r == ShowShortcutResult(id)
        IN /\ r.ctx = id /\ r.dialog = <<>>
           /\ r.cfg = config /\ r.models = shortcut_models
           /\ r.defaults = defaults /\ ~r.panic

\* C25 witness: a shortcut has just been shown while a confirmation was
\* staged, and the confirmation is gone.
C25_Witness ==
    /\ last.msg = "ShowShortcut" /\ last.flag
    /\ shortcut_context # None /\ replace_dialog = <<>>

\* C26 (as claimed, at DeleteShortcut): when the context names an occupied
\* slot of shortcut_models, it is None or names an occupied slot after
\* DeleteShortcut, the shown model's included.
C26_ContextNamesModel ==
    [][\A id \in Ids :
          (HasModel(shortcut_models, shortcut_context) /\ DeleteShortcut(id))
          => (shortcut_context' = None \/ shortcut_context' \in DOMAIN shortcut_models')
      ]_vars

\* C27 (as claimed, once the page is entered): DeleteBinding(id) with an id
\* that is no row of the active model, and DeleteShortcut(id) with an id that
\* is no slot of shortcut_models, leave the state as it is and do not abort.
C27_StaleHandleIgnored ==
    [][\A id \in Ids :
          (\/ /\ HasModel(shortcut_models, shortcut_context)
              /\ id \notin DOMAIN shortcut_models[shortcut_context].bindings
              /\ DeleteBinding(id)
           \/ /\ shortcut_models # EmptySlab
              /\ id \notin DOMAIN shortcut_models
              /\ DeleteShortcut(id))
          => /\ ~panicked'
             /\ UNCHANGED <<config, defaults, replace_dialog, shortcut_models,
                            shortcut_context>>
      ]_vars

\* C28 (as claimed): when a committed row is being edited with its own
\* binding in the buffer, as entering edit leaves it, and no confirmation is
\* staged, SubmitBinding and leaving edit stage none and leave the custom
\* table and the row's binding as they are.
C28_OwnBindingNotStaged ==
    [][\A id \in Ids :
          (/\ HasRow(shortcut_models, shortcut_context, id)
           /\ shortcut_models[shortcut_context].bindings[id].editing
           /\ is_set(shortcut_models[shortcut_context].bindings[id].binding)
           /\ shortcut_models[shortcut_context].bindings[id].input
                 = to_string(shortcut_models[shortcut_context].bindings[id].binding)
           /\ replace_dialog = <<>>
           /\ (SubmitBinding(id) \/ EditBinding(id, FALSE)))
          => /\ replace_dialog' = <<>>
             /\ config'.custom = config.custom
             /\ HasRow(shortcut_models', shortcut_context', id)
             /\ shortcut_models'[shortcut_context'].bindings[id].binding
                   = shortcut_models[shortcut_context].bindings[id].binding
      ]_vars

\* C29 (as claimed): whenever a confirmation is staged, the context is Some
\* and the confirmation's row is an occupied row of the active model.
C29_StagedRowExists ==
    Len(replace_dialog) = 1
    => HasRow(shortcut_models, shortcut_context, replace_dialog[1].id)

\* The bindings held by the rows of the models of an action.
HeldBy(models, action) ==
    UNION {Held(models[m]) : m \in {x \in DOMAIN models : models[x].action = action}}

\* C30 (as claimed): after a commit without conflict that changes a row's
\* binding from a set binding P to another binding B, the models of the
\* row's action hold B and do not hold P.
C30_RebindReplaces ==
    [][\A id \in Ids :
          /\ (/\ TypedCommit(NoFault, id)
              /\ is_set(shortcut_models[shortcut_context].bindings[id].binding)
              /\ shortcut_models[shortcut_context].bindings[id].binding # Typed(id)[1]
              /\ (SubmitBinding(id) \/ EditBinding(id, FALSE)))
             => LET action == shortcut_models[shortcut_context].action
                IN /\ Typed(id)[1] \in HeldBy(shortcut_models', action)
                   /\ shortcut_models[shortcut_context].bindings[id].binding
                         \notin HeldBy(shortcut_models', action)
          /\ \A key \in PressedKeys, modifiers \in PressedModifiers :
                (/\ PressedCommit(NoFault, id, key, modifiers)
                 /\ is_set(shortcut_models[shortcut_context].bindings[id].binding)
                 /\ shortcut_models[shortcut_context].bindings[id].binding
                       # Binding(modifiers, KeysymValue(key))
                 /\ KeyPressed(id, key, modifiers))
                => LET action == shortcut_models[shortcut_context].action
                   IN /\ Binding(modifiers, KeysymValue(key))
                            \in HeldBy(shortcut_models', action)
                      /\ shortcut_models[shortcut_context].bindings[id].binding
                            \notin HeldBy(shortcut_models', action)
      ]_vars

\* The custom entries that belong to an action other than A: neither A's nor
\* Disable markers.
Foreign(cfg, A) == {b \in DOMAIN cfg.custom : cfg.custom[b] \notin {A, Disable}}
\* The bindings the defaults map to A.
DefaultsOf(cfg, A) == {b \in DOMAIN cfg.defaults : cfg.defaults[b] = A}

\* C31 (as claimed): ResetBindings on an active model of action A, handled
\* once the page has reloaded after its own store calls, leaves every custom
\* entry whose action is neither A nor Disable as it is, an entry keyed by
\* one of A's default bindings included.
C31_ResetKeepsForeign ==
    Loaded /\ HasModel(shortcut_models, shortcut_context)
    => LET A == shortcut_models[shortcut_context].action
           after == ResetBindingsResult(NoFault).cfg.custom
       IN \A b \in Foreign(config, A) :
              b \in DOMAIN after /\ after[b] = config.custom[b]

\* C31 (amended): ResetBindings on an active model of action A, handled
\* once the page has reloaded after its own store calls, adds no custom entry
\* and leaves every custom entry whose action is neither A nor Disable as it
\* is, except the entries keyed by a default binding of A: those are removed,
\* so a binding another action took over returns to A.
C31_ResetKeepsForeignButDefaults ==
    Loaded /\ HasModel(shortcut_models, shortcut_context)
    => LET A == shortcut_models[shortcut_context].action
           after == ResetBindingsResult(NoFault).cfg.custom
       IN /\ DOMAIN after \subseteq DOMAIN config.custom
          /\ \A b \in Foreign(config, A) :
                IF b \in DefaultsOf(config, A)
                THEN b \notin DOMAIN after
                ELSE b \in DOMAIN after /\ after[b] = config.custom[b]

\* C31 witness: a reset has just changed the store, and custom still holds
\* an entry of another action.
C31_Witness ==
    /\ last.msg = "ResetBindings" /\ last.tag = "reset" /\ last.flag
    /\ HasModel(shortcut_models, shortcut_context)
    /\ Foreign(config, shortcut_models[shortcut_context].action) # {}

\* Tables t and u have the same entry, or both none, for every key but b.
SameBut(t, u, b) ==
    /\ DOMAIN t \ {b} = DOMAIN u \ {b}
    /\ \A k \in DOMAIN t \ {b} : t[k] = u[k]

\* C32 (as claimed): config_add(action, b) and config_remove(b) change the
\* entry of b only: after config_add the custom table maps b to action, after
\* config_remove b is no key of it, and every other entry is as before, also
\* while the read of custom fails.
C32_OnlyKeyedEntryChanges ==
    \A io \in Faults(1 .. 1, {}, {}), b \in SetBindings :
        /\ \A action \in {PageActions[k] : k \in 1 .. Len(PageActions)} \cup {Disable} :
               LET added == config_add(io, config, action, b, 1, 1).custom
               IN /\ b \in DOMAIN added /\ added[b] = action
                  /\ SameBut(added, config.custom, b)
        /\ LET removed == config_remove(io, config, b, 1, 1).custom
           IN b \notin DOMAIN removed /\ SameBut(removed, config.custom, b)

\* C33: between messages, each set binding is the committed binding of at
\* most one row over all models, and a model that listens for a key listens
\* for one of its own rows.
C33_OneRowPerBinding ==
    /\ \A b \in SetBindings : Cardinality(Holders(shortcut_models, b)) <= 1
    /\ \A m \in DOMAIN shortcut_models :
           shortcut_models[m].request_key_input # None
           => shortcut_models[m].request_key_input \in DOMAIN shortcut_models[m].bindings

\* C33 witness: a model listens for one of its rows while the rows of the
\* models hold two set bindings.
C33_Witness ==
    /\ \E m \in DOMAIN shortcut_models : shortcut_models[m].request_key_input # None
    /\ Cardinality({b \in SetBindings : Holders(shortcut_models, b) # {}}) >= 2

====
